---- MODULE Spec2Model ----
(***************************************************************************)
(* Model of the invocation engine of adk-js: the PluginManager (ordered,   *)
(* early-exit hook runs) and the function-call dispatcher                  *)
(* handleFunctionCallsAsync.                                               *)
(*                                                                         *)
(* Asynchronous functions are modelled at the granularity of JavaScript's  *)
(* run-to-completion semantics: one action is one synchronous stretch of   *)
(* code between two awaited boundaries.                                    *)
(***************************************************************************)
EXTENDS Naturals, Integers, Sequences, FiniteSets, TLC

(***************************************************************************)
(* JavaScript values.  Every value is a record [kind, tag, inner]:         *)
(*   undefined, null, a number, an array, or an object.  The objects are   *)
(*   opaque ones (tag names them), {result: v} (tag "result", inner names  *)
(*   the wrapped value) and {error: msg} (tag "error", inner is msg).      *)
(* Strings are sequences of fragments so that concatenation is \o.         *)
(***************************************************************************)
Undefined == [kind |-> "undefined", tag |-> "", inner |-> <<>>]
Null == [kind |-> "null", tag |-> "", inner |-> <<>>]
Num == [kind |-> "number", tag |-> "7", inner |-> <<>>]
Arr == [kind |-> "array", tag |-> "list", inner |-> <<>>]
Obj(t) == [kind |-> "object", tag |-> t, inner |-> <<>>]
ResultObj(v) == [kind |-> "object", tag |-> "result", inner |-> <<v.kind, v.tag>>]
ErrorObj(msg) == [kind |-> "object", tag |-> "error", inner |-> msg]

(* typeof v === 'object': objects, arrays and null *)
TypeofObject(v) == v.kind \in {"object", "array", "null"}

(***************************************************************************)
(* Thrown values: an Error instance with a message, or a value that is not *)
(* an Error (a thrown string).                                             *)
(***************************************************************************)
NoThrown == [kind |-> "none", message |-> <<>>]
ErrBoom == [kind |-> "Error", message |-> <<"boom">>]
StrOops == [kind |-> "string", message |-> <<"oops">>]
Thrown == {ErrBoom, StrOops}

(* e instanceof Error ? e : new Error(String(e)) *)
ToError(e) == IF e.kind = "Error" THEN e ELSE [kind |-> "Error", message |-> e.message]

(* An error created with new Error(message, {cause}) *)
NoError == [message |-> <<>>, cause |-> NoThrown]
NewError(msg, c) == [message |-> msg, cause |-> c]

(* The outcome of awaiting a callback or a tool: it returns or it throws. *)
Return(v) == [type |-> "return", value |-> v, thrown |-> NoThrown]
Throw(e) == [type |-> "throw", value |-> Undefined, thrown |-> e]

(***************************************************************************)
(* Plugins.  A plugin object has a name; impl "base" is a plugin that      *)
(* overrides no hook (BasePlugin's methods, all returning undefined),      *)
(* impl "custom" overrides the hooks and may return anything or throw.     *)
(* PluginA2 is a second object carrying the name of PluginA.               *)
(***************************************************************************)
Hooks == {"onUserMessageCallback", "beforeRunCallback", "onEventCallback",
          "afterRunCallback", "beforeAgentCallback", "afterAgentCallback",
          "beforeModelCallback", "afterModelCallback", "onModelErrorCallback",
          "beforeToolCallback", "afterToolCallback", "onToolErrorCallback"}

PluginA == [name |-> "a", impl |-> "custom"]
PluginB == [name |-> "b", impl |-> "base"]
PluginC == [name |-> "c", impl |-> "custom"]
PluginA2 == [name |-> "a", impl |-> "base"]
PluginPool == {PluginA, PluginB, PluginC, PluginA2}

(* a plugin whose hooks return values that a truthiness test takes for     *)
(* nothing: null, false, 0, '' and {}                                      *)
PluginF == [name |-> "f", impl |-> "falsy"]
FalsyValues == {Null,
                [kind |-> "boolean", tag |-> "false", inner |-> <<>>],
                [kind |-> "number", tag |-> "0", inner |-> <<>>],
                [kind |-> "string", tag |-> "", inner |-> <<>>],
                Obj("")}
FalsyOutcomes == {[type |-> "return", value |-> v, thrown |-> [kind |-> "none", message |-> <<>>]] :
                    v \in {Undefined} \cup FalsyValues}

(* What a custom plugin's hook may return besides undefined *)
PluginValues == {Null, Obj("P")}

(* BasePlugin: every hook method returns undefined *)
BasePlugin(hook) == {Return(Undefined)}

AllOutcomes == {Return(v) : v \in {Undefined} \cup PluginValues} \cup {Throw(e) : e \in Thrown}

(* The outcomes of plugin p's method for a hook *)
CallbackOutcomes(p, hook) ==
  IF p.impl = "base" THEN BasePlugin(hook)
  ELSE IF p.impl = "falsy" THEN FalsyOutcomes
  ELSE AllOutcomes

VARIABLES
  plugins,      \* PluginManager.plugins: the registered plugins, in order
  registered,   \* number of registerPlugin calls that returned normally
  lastRegister, \* outcome of the latest registerPlugin call
  run,          \* the activation of runCallbacks in progress, if any
  dispatch,     \* the activation of handleFunctionCallsAsync: its arguments,
                \* loop position, functionResponseEvents and outcome
  call,         \* the locals of the loop iteration (one function call)
  heap,         \* the mapping containers allocated so far (EventActions maps)
  sources,      \* the sources argument of mergeEventActions
  target,       \* the target argument of mergeEventActions
  merged,       \* what mergeEventActions returned
  created,      \* what the calls of createEventActions returned, in order
  authEvent,    \* the call of generateAuthEvent: its functionResponseEvent
                \* and what it returned
  history,      \* the events of the session when a turn begins
  newMessage,   \* the message of the turn
  agent,        \* the agent resolved for the turn
  turn,         \* the activation of Runner.runAsync: its locals and what
                \* its caller has received
  stored,       \* the session of the turn as the session store holds it
  store,        \* InMemorySessionService: sessions, userState, appState
  tasks,        \* the calls of appendEvent and deleteSession in progress
  returned       \* the latest call of the session service that returned

pmVars == <<plugins, registered, lastRegister, run>>
dVars == <<dispatch, call>>
eaVars == <<heap, sources, target, merged, created, authEvent>>
raVars == <<history, newMessage, agent>>
rnVars == <<turn, stored>>
ssVars == <<store, tasks, returned>>
restVars == <<eaVars, raVars, rnVars, ssVars>>
vars == <<plugins, registered, lastRegister, run, dispatch, call, eaVars, raVars, rnVars,
          ssVars>>

(***************************************************************************)
(* PluginManager.registerPlugin                                            *)
(***************************************************************************)
(* faulty variant: compares the plugin objects instead of their names *)
NameTakenSameObject(ps, p) == \E i \in 1..Len(ps) : ps[i] = p

NameTaken(ps, p) == \E i \in 1..Len(ps) : ps[i].name = p.name

registerPlugin(ps, p) ==
  IF NameTaken(ps, p)
  THEN [threw |-> TRUE, plugins |-> ps]
  ELSE [threw |-> FALSE, plugins |-> Append(ps, p)]

getPluginCount == Len(plugins)

(* constructor(plugins?): registers the given plugins in order; a throw    *)
(* of registerPlugin leaves the constructor, so no manager exists.         *)
RECURSIVE Constructor(_, _)
Constructor(ps, given) ==
  IF given = <<>> THEN [threw |-> FALSE, plugins |-> ps]
  ELSE LET r == registerPlugin(ps, Head(given))
       IN IF r.threw THEN r ELSE Constructor(r.plugins, Tail(given))

MaxPlugins == 3

ConstructorArgs == UNION {[1..n -> PluginPool] : n \in 0..MaxPlugins}

(***************************************************************************)
(* PluginManager.runCallbacks.  run.invoked lists the indices of the       *)
(* plugins whose callback was started, run.completed the outcomes of the   *)
(* callbacks that settled, run.active the callbacks started and not yet    *)
(* settled, run.atStart the length of the plugins array when the run was   *)
(* called (a record of the past that the code does not keep).              *)
(***************************************************************************)
IdleRun == [pc |-> "idle", hook |-> "", caller |-> "", idx |-> 0, atStart |-> 0,
            invoked |-> <<>>, completed |-> <<>>, active |-> {},
            result |-> Undefined, error |-> NoError]

(* faulty variant: a truthiness-style test that lets null pass as "no opinion" *)
IsDefinedNotNull(result) == result.kind \notin {"undefined", "null"}

(* result !== undefined *)
IsDefined(result) == result # Undefined

(* faulty variant: the loop runs over the plugins that were registered     *)
(* when the run was called, as over a copy of the array                    *)
IterateSnapshot(r, i) ==
  IF i <= r.atStart
  THEN [r EXCEPT !.pc = "inCallback", !.idx = i,
                 !.invoked = Append(@, i), !.active = @ \cup {i}]
  ELSE [r EXCEPT !.pc = "returned", !.idx = i, !.result = Undefined]

(* faulty variant: the index runs one ahead, so a plugin is passed over *)
IterateSkip(r, i) ==
  IF i < Len(plugins)
  THEN [r EXCEPT !.pc = "inCallback", !.idx = i + 1,
                 !.invoked = Append(@, i + 1), !.active = @ \cup {i + 1}]
  ELSE [r EXCEPT !.pc = "returned", !.idx = i, !.result = Undefined]

(* faulty variant: the loop stops one short of the end of the list *)
IterateShort(r, i) ==
  IF i < Len(plugins)
  THEN [r EXCEPT !.pc = "inCallback", !.idx = i,
                 !.invoked = Append(@, i), !.active = @ \cup {i}]
  ELSE [r EXCEPT !.pc = "returned", !.idx = i, !.result = Undefined]

(* the for-of loop reaches index i of the live array: either the callback  *)
(* of plugins[i] is called, or the array is exhausted and the run returns  *)
(* undefined                                                               *)
Iterate(r, i) ==
  IF i <= Len(plugins)
  THEN [r EXCEPT !.pc = "inCallback", !.idx = i,
                 !.invoked = Append(@, i), !.active = @ \cup {i}]
  ELSE [r EXCEPT !.pc = "returned", !.idx = i, !.result = Undefined]

(* the call of runCallbacks up to its first await *)
runCallbacks(hook, caller) ==
  Iterate([IdleRun EXCEPT !.hook = hook, !.caller = caller,
                          !.atStart = Len(plugins)], 1)

(* message of the error a failing plugin is wrapped into *)
PluginErrorMessage(name, hook, error) ==
  <<"Error in plugin '", name, "' during '", hook, "' callback: ">> \o error.message

(* faulty variant: the catch block swallows the exception and the loop goes on *)
ResumeSwallow(r, o) ==
  LET r1 == [r EXCEPT !.completed = Append(@, o), !.active = @ \ {r.idx}]
  IN IF o.type = "return" /\ o.value # Undefined
     THEN [r1 EXCEPT !.pc = "returned", !.result = o.value]
     ELSE IF r.idx + 1 <= Len(plugins)
          THEN [r1 EXCEPT !.pc = "inCallback", !.idx = r.idx + 1,
                          !.invoked = Append(@, r.idx + 1), !.active = @ \cup {r.idx + 1}]
          ELSE [r1 EXCEPT !.pc = "returned", !.idx = r.idx + 1, !.result = Undefined]

(* the continuation of runCallbacks after the awaited callback settled *)
Resume(r, o) ==
  LET r1 == [r EXCEPT !.completed = Append(@, o), !.active = @ \ {r.idx}]
  IN IF o.type = "throw"
     THEN [r1 EXCEPT !.pc = "threw",
                     !.error = NewError(
                        PluginErrorMessage(plugins[r.idx].name, r.hook, ToError(o.thrown)),
                        ToError(o.thrown))]
     ELSE IF IsDefined(o.value)
          THEN [r1 EXCEPT !.pc = "returned", !.result = o.value]
          ELSE Iterate(r1, r.idx + 1)

(***************************************************************************)
(* Actions of the plugin manager                                           *)
(***************************************************************************)
RegisterPlugin(p) ==
  /\ Len(plugins) < MaxPlugins \/ NameTaken(plugins, p)
  /\ LET r == registerPlugin(plugins, p)
     IN /\ plugins' = r.plugins
        /\ lastRegister' = [outcome |-> IF r.threw THEN "threw" ELSE "ok", plugin |-> p]
        /\ registered' = IF r.threw THEN registered ELSE registered + 1
  /\ UNCHANGED <<run, dispatch, call, restVars>>

(* some caller starts a hook runner, e.g. runBeforeRunCallback *)
RunHook(hook) ==
  /\ run.pc = "idle"
  /\ run' = runCallbacks(hook, "caller")
  /\ UNCHANGED <<plugins, registered, lastRegister, dispatch, call, restVars>>

(* the callback in progress returns a value *)
CallbackReturns(o) ==
  /\ run.pc = "inCallback"
  /\ o \in CallbackOutcomes(plugins[run.idx], run.hook)
  /\ o.type = "return"
  /\ run' = Resume(run, o)
  /\ UNCHANGED <<plugins, registered, lastRegister, dispatch, call, restVars>>

(* the callback in progress throws *)
CallbackThrows(o) ==
  /\ run.pc = "inCallback"
  /\ o \in CallbackOutcomes(plugins[run.idx], run.hook)
  /\ o.type = "throw"
  /\ run' = Resume(run, o)
  /\ UNCHANGED <<plugins, registered, lastRegister, dispatch, call, restVars>>

(* the caller of the hook runner receives the value or the error *)
RunSettled ==
  /\ run.pc \in {"returned", "threw"}
  /\ run.caller = "caller"
  /\ run' = IdleRun
  /\ UNCHANGED <<plugins, registered, lastRegister, dispatch, call, restVars>>


(***************************************************************************)
(* EventActions (event_actions.ts).                                        *)
(*                                                                         *)
(* A mapping container (a JavaScript object used as a map) lives in the    *)
(* heap and is named by a reference, so that two objects can share it.  A  *)
(* container is a function on Keys; NoEntry says the key is not in it.  An *)
(* EventActions object, or a partial one, is a function on Fields: Absent  *)
(* is a property the object does not own, Undefined one it owns with the   *)
(* value undefined; a mapping field holds a Ref.                           *)
(***************************************************************************)
MapFields == <<"stateDelta", "artifactDelta", "requestedAuthConfigs",
               "requestedToolConfirmations">>
MapFieldSet == {MapFields[k] : k \in 1..Len(MapFields)}
ScalarFields == {"skipSummarization", "transferToAgent", "escalate"}
Fields == MapFieldSet \cup ScalarFields
IndexOf(f) == CHOOSE k \in 1..Len(MapFields) : MapFields[k] = f

Keys == {"a", "b"}
NoEntry == 0
EmptyMap == [k \in Keys |-> NoEntry]

Absent == [kind |-> "absent", tag |-> "", inner |-> <<>>]
True == [kind |-> "boolean", tag |-> "true", inner |-> <<>>]
False == [kind |-> "boolean", tag |-> "false", inner |-> <<>>]
AgentX == [kind |-> "string", tag |-> "agentX", inner |-> <<>>]
Ref(n) == [kind |-> "object", tag |-> "map", inner |-> <<n>>]
IsRef(v) == v.kind = "object" /\ v.tag = "map"
At(h, v) == h[v.inner[1]]

(* undefined where an object is expected *)
NoObject == [f \in Fields |-> [kind |-> "none", tag |-> "", inner |-> <<>>]]
EmptyObject == [f \in Fields |-> Absent]

(* reading property f of object o *)
Get(o, f) == IF o[f] = Absent THEN Undefined ELSE o[f]

(* if (v) *)
Truthy(v) == v.kind \notin {"absent", "undefined", "null", "none"} /\ v # False

(* faulty variant: a key the container already has keeps its value *)
AssignKeepsOld(dst, src) == [k \in Keys |-> IF dst[k] # NoEntry THEN dst[k] ELSE src[k]]

(* Object.assign(dst, src) on two mapping containers *)
Assign(dst, src) == [k \in Keys |-> IF src[k] # NoEntry THEN src[k] ELSE dst[k]]

(* Object.assign(dst, src) and {...dst, ...src} on two objects: the own    *)
(* properties of src are copied, an own undefined included                 *)
AssignObject(dst, src) == [f \in Fields |-> IF src[f] # Absent THEN src[f] ELSE dst[f]]

(* createEventActions(state = {}): four new containers, then ...state *)
createEventActions(h, state) ==
  LET given == IF state = NoObject THEN EmptyObject ELSE state
      literal == [f \in Fields |-> IF f \in MapFieldSet THEN Ref(Len(h) + IndexOf(f))
                                   ELSE Absent]
  IN [heap |-> h \o [k \in 1..Len(MapFields) |-> EmptyMap],
      obj |-> AssignObject(literal, given)]

(* the four "if (source.f) Object.assign(result.f, source.f)" of one source *)
RECURSIVE AssignMaps(_, _, _, _)
AssignMaps(h, obj, source, k) ==
  IF k > Len(MapFields) THEN h
  ELSE LET f == MapFields[k]
       IN AssignMaps(IF Truthy(source[f])
                     THEN [h EXCEPT ![obj[f].inner[1]] = Assign(@, At(h, source[f]))]
                     ELSE h,
                     obj, source, k + 1)

(* faulty variant: every scalar the source owns is copied, undefined too *)
AssignScalarsOwned(obj, source) ==
  [f \in Fields |-> IF f \in ScalarFields /\ source[f] # Absent
                    THEN source[f] ELSE obj[f]]

(* the three "if (source.f !== undefined) result.f = source.f" *)
AssignScalars(obj, source) ==
  [f \in Fields |-> IF f \in ScalarFields /\ Get(source, f) # Undefined
                    THEN source[f] ELSE obj[f]]

(* the body of the loop over sources; m is the heap and the result *)
MergeSource(m, source) ==
  IF source = NoObject THEN m
  ELSE [heap |-> AssignMaps(m.heap, m.obj, source, 1),
        obj |-> AssignScalars(m.obj, source)]

RECURSIVE MergeSources(_, _, _)
MergeSources(m, srcs, k) ==
  IF k > Len(srcs) THEN m
  ELSE MergeSources(MergeSource(m, srcs[k]), srcs, k + 1)

(* mergeEventActions(sources, target?) *)
mergeEventActions(h, srcs, tgt) ==
  LET fresh == createEventActions(h, NoObject)
      start == [fresh EXCEPT !.obj = IF tgt # NoObject THEN AssignObject(@, tgt) ELSE @]
  IN MergeSources(start, srcs, 1)

(* An object written out, as in an object literal: maps are the mapping    *)
(* fields that hold a container, undef the fields named with the value     *)
(* undefined, entries the triples <<field, key, value>> of the containers  *)
(* and <<field, "", value>> of the scalars that have a value.  View reads  *)
(* an object of the heap this way; New builds the object a literal         *)
(* describes, with new containers.                                         *)
Literal(maps, undef, entries) ==
  [given |-> TRUE, maps |-> maps, undef |-> undef, entries |-> entries]
NoLiteral == [given |-> FALSE, maps |-> {}, undef |-> {}, entries |-> {}]
EmptyLiteral == Literal({}, {}, {})

Has(lit, f, key) == \E e \in lit.entries : e[1] = f /\ e[2] = key
ValueOf(lit, f, key) == (CHOOSE e \in lit.entries : e[1] = f /\ e[2] = key)[3]

View(h, o) ==
  IF o = NoObject THEN NoLiteral
  ELSE Literal({f \in MapFieldSet : IsRef(o[f])},
               {f \in Fields : o[f] = Undefined},
               {<<p[1], p[2], At(h, o[p[1]])[p[2]]>> :
                  p \in {q \in MapFieldSet \X Keys :
                           IsRef(o[q[1]]) /\ At(h, o[q[1]])[q[2]] # NoEntry}}
                 \cup {<<f, "", o[f]>> :
                         f \in {g \in ScalarFields : o[g] \notin {Absent, Undefined}}})

New(h, lit) ==
  [heap |-> h \o [k \in 1..Len(MapFields) |->
                    [key \in Keys |-> IF Has(lit, MapFields[k], key)
                                      THEN ValueOf(lit, MapFields[k], key) ELSE NoEntry]],
   obj |-> IF ~lit.given THEN NoObject
           ELSE [f \in Fields |-> IF f \in lit.maps THEN Ref(Len(h) + IndexOf(f))
                                  ELSE IF f \in lit.undef THEN Undefined
                                  ELSE IF Has(lit, f, "") THEN ValueOf(lit, f, "")
                                  ELSE Absent]]

RECURSIVE NewAll(_, _, _)
NewAll(m, lits, k) ==
  IF k > Len(lits) THEN m
  ELSE LET n == New(m.heap, lits[k])
       IN NewAll([heap |-> n.heap, objs |-> Append(m.objs, n.obj)], lits, k + 1)

(* new EventActions({}), written out *)
EmptyActions ==
  LET c == createEventActions(<<>>, NoObject) IN View(c.heap, c.obj)

(***************************************************************************)
(* The function-call dispatcher, handleFunctionCallsAsync.                 *)
(*                                                                         *)
(* A function call of the originating event is [id, name]; NoId is a call   *)
(* without id, name "" a call without name.  toolsDict holds a plain tool  *)
(* and a long-running one.                                                 *)
(***************************************************************************)
toolsDict == [t |-> [name |-> "t", isLongRunning |-> FALSE],
              lr |-> [name |-> "lr", isLongRunning |-> TRUE]]

(* what tool.runAsync may do *)
ToolValues == {Undefined, Null, Num, Arr, Obj("T")}
ToolOutcomes == {Return(v) : v \in ToolValues} \cup {Throw(e) : e \in Thrown}

(* what an agent-level before/after-tool callback may do *)
AgentCallbackValues == {Null, Obj("A")}
AgentCallbackOutcomes ==
  {Return(v) : v \in {Undefined} \cup AgentCallbackValues} \cup {Throw(ErrBoom)}

(* call ids; NoId is the id of a call that has none *)
NoId == <<>>
IdAt(k) == <<"id", k>>

(* the filters argument: absent, or a set of call ids *)
NoFilters == [given |-> FALSE, ids |-> {}]
Filters(ids) == [given |-> TRUE, ids |-> ids]

(* the invocation context that handleFunctionCallsAsync is given: its id,   *)
(* its agent and its branch                                                *)
invocationContext ==
  [invocationId |-> "inv", agent |-> [name |-> "agent"], branch |-> "root.agent"]

(* a field of an event that the constructor was not given *)
NotGiven == ""

(* new Event(data): the fields that data carries, a field that it does not *)
(* carry left as not given, and the timestamp read from the clock (now)    *)
(* when data has none                                                      *)
Event(data, now) ==
  [isNull |-> FALSE,
   invocationId |-> IF "invocationId" \in DOMAIN data THEN data.invocationId ELSE NotGiven,
   author |-> IF "author" \in DOMAIN data THEN data.author ELSE NotGiven,
   branch |-> IF "branch" \in DOMAIN data THEN data.branch ELSE NotGiven,
   role |-> data.content.role,
   parts |-> data.content.parts,
   actions |-> IF "actions" \in DOMAIN data THEN data.actions ELSE EmptyActions,
   longRunningToolIds |-> IF "longRunningToolIds" \in DOMAIN data
                          THEN data.longRunningToolIds ELSE {},
   timestamp |-> IF "timestamp" \in DOMAIN data THEN data.timestamp ELSE now]

NullEvent ==
  [isNull |-> TRUE, invocationId |-> NotGiven, author |-> NotGiven, branch |-> NotGiven,
   role |-> NotGiven, parts |-> <<>>, actions |-> EmptyActions,
   longRunningToolIds |-> {}, timestamp |-> 0]

(* no call of generateAuthEvent yet *)
NoAuthEvent ==
  [called |-> FALSE, functionResponseEvent |-> [actions |-> NoObject, role |-> NotGiven],
   returned |-> NullEvent]
NoThrow == [source |-> "", message |-> <<>>]

IdleDispatch ==
  [pc |-> "idle",
   functionCallEvent |-> [calls |-> <<>>, longRunningToolIds |-> {}],
   filters |-> NoFilters,
   beforeToolCallbacks |-> 0, afterToolCallbacks |-> 0,
   functionCallsToExecute |-> <<>>, i |-> 0,
   functionResponseEvents |-> <<>>, returned |-> NullEvent, thrown |-> NoThrow]

(* the locals of one loop iteration; functionCallId and actions are those  *)
(* of its toolContext, actions written out; asked/answers record the       *)
(* stages asked for this call and what each answered; produced is          *)
(* functionResponse as it was when step 4 began; emitted tells whether a   *)
(* response event was pushed for the call                                  *)
NewCall ==
  [tool |-> "", functionCallId |-> NoId, actions |-> EmptyActions,
   functionResponse |-> Undefined,
   alteredFunctionResponse |-> Undefined,
   normalizedResponseForCallback |-> Undefined,
   err |-> NoThrown, cb |-> 0, asked |-> <<>>, answers |-> <<>>,
   produced |-> Undefined, emitted |-> FALSE]

Ask(c, stage, j) == [c EXCEPT !.asked = Append(@, [stage |-> stage, idx |-> j])]
Answer(c, o) == [c EXCEPT !.answers = Append(@, o)]

(* The state the dispatcher works on: its own record d, the locals c of    *)
(* the iteration, and the hook run r it awaits.                            *)
State == [d |-> dispatch, c |-> call, r |-> run]

Fail(S, source, msg) ==
  [S EXCEPT !.d.pc = "threw", !.d.thrown = [source |-> source, message |-> msg],
            !.r = IdleRun]

(* faulty variant: the filters are a deny-list *)
AllowedUnlessListed(fc, f) == ~f.given \/ fc.id \notin f.ids

(* allFunctionCalls.filter(fc => !filters || (fc.id && filters.has(fc.id))) *)
Allowed(fc, f) == ~f.given \/ (fc.id # NoId /\ fc.id \in f.ids)

FilterCalls(calls, f) == SelectSeq(calls, LAMBDA fc : Allowed(fc, f))

(* getToolAndContext: the name must be present and in toolsDict *)
Resolvable(fc) == fc.name # "" /\ fc.name \in DOMAIN toolsDict

(* `${functionCall.name}`: the text of a name, "undefined" for a missing one *)
NameText(name) == IF name = "" THEN "undefined" ELSE name

(* faulty variant: a call whose tool is unknown gets an error response and *)
(* the loop goes on                                                        *)
StartCallAnswersUnknown(S, i) ==
  LET fc == S.d.functionCallsToExecute[i]
  IN IF ~Resolvable(fc)
     THEN [S EXCEPT !.d.pc = "next", !.d.i = i, !.r = IdleRun,
                    !.c = [NewCall EXCEPT !.tool = "t", !.functionCallId = fc.id,
                                          !.emitted = TRUE],
                    !.d.functionResponseEvents =
                       Append(@, Event([invocationId |-> invocationContext.invocationId,
                                        author |-> invocationContext.agent.name,
                                        branch |-> invocationContext.branch,
                                        content |->
                                          [role |-> "user",
                                           parts |-> <<[name |-> fc.name, id |-> fc.id,
                                                        response |-> ErrorObj(<<"not found">>)]>>],
                                        actions |-> EmptyActions], i))]
     ELSE [d |-> [S.d EXCEPT !.pc = "beforeTool", !.i = i],
           c |-> Ask([NewCall EXCEPT !.tool = fc.name, !.functionCallId = fc.id],
                     "beforeTool", 0),
           r |-> runCallbacks("beforeToolCallback", "dispatch")]

(* top of the loop body for call i: getToolAndContext, then step 1, the    *)
(* call of pluginManager.runBeforeToolCallback                             *)
StartCall(S, i) ==
  LET fc == S.d.functionCallsToExecute[i]
  IN IF ~Resolvable(fc)
     THEN Fail([S EXCEPT !.d.i = i], "toolsDict",
               <<"Function ", NameText(fc.name), " is not found in the toolsDict.">>)
     ELSE [d |-> [S.d EXCEPT !.pc = "beforeTool", !.i = i],
           c |-> Ask([NewCall EXCEPT !.tool = fc.name, !.functionCallId = fc.id],
                     "beforeTool", 0),
           r |-> runCallbacks("beforeToolCallback", "dispatch")]

(* normalizedResponseForCallback *)
NormalizeForCallback(v) == IF v.kind = "object" THEN v ELSE ResultObj(v)

(* buildResponseEvent: an event of the invocation with one function-       *)
(* response part, role 'user' and the actions of the toolContext; now is   *)
(* the clock that the Event constructor reads                              *)
buildResponseEvent(tool, functionResult, toolContext, context, now) ==
  Event([invocationId |-> context.invocationId,
         author |-> context.agent.name,
         content |->
           [role |-> "user",
            parts |-> <<[name |-> tool, id |-> toolContext.functionCallId,
                         response |-> IF ~TypeofObject(functionResult) \/ functionResult = Null
                                      THEN ResultObj(functionResult) ELSE functionResult]>>],
         actions |-> toolContext.actions,
         branch |-> context.branch], now)

(* faulty variant: the parts are collected from the last event to the first *)
RECURSIVE mergedPartsReversed(_, _)
mergedPartsReversed(events, k) ==
  IF k > Len(events) THEN <<>>
  ELSE mergedPartsReversed(events, k + 1) \o events[k].parts

(* mergedParts.push(...event.content.parts) for the events from k on *)
RECURSIVE mergedParts(_, _)
mergedParts(events, k) ==
  IF k > Len(events) THEN <<>>
  ELSE events[k].parts \o mergedParts(events, k + 1)

(* faulty variant: the merged event takes the actions of the first event,  *)
(* as it takes its author and branch                                       *)
mergeParallelBaseActions(events) ==
  IF Len(events) = 1 THEN events[1]
  ELSE Event([author |-> events[1].author, branch |-> events[1].branch,
              content |-> [role |-> "user", parts |-> mergedParts(events, 1)],
              actions |-> events[1].actions,
              timestamp |-> events[1].timestamp], events[1].timestamp)

(* mergeParallelFunctionResponseEvents: the only event as it is, or a new  *)
(* event with the parts of all events in order and their actions merged    *)
mergeParallelFunctionResponseEvents(events) ==
  IF Len(events) = 1 THEN events[1]
  ELSE LET actionsList == NewAll([heap |-> <<>>, objs |-> <<>>],
                                 [k \in 1..Len(events) |-> events[k].actions], 1)
           mergedActions == mergeEventActions(actionsList.heap, actionsList.objs, NoObject)
           baseEvent == events[1]
       IN Event([author |-> baseEvent.author, branch |-> baseEvent.branch,
                 content |-> [role |-> "user", parts |-> mergedParts(events, 1)],
                 actions |-> View(mergedActions.heap, mergedActions.obj),
                 timestamp |-> baseEvent.timestamp], baseEvent.timestamp)

(* faulty variant: the synthesized response carries the bare message *)
ToolErrorMessageBare(err) == err.message

(* message of the response synthesized for an unhandled tool error *)
ToolErrorMessage(err) == <<"Tool execution failed: ">> \o err.message

(* faulty variant: the long-running test is dropped *)
SkipsAnyAbsent(tool, functionResponse) == functionResponse \in {Undefined, Null}

(* tool.isLongRunning && (functionResponse === undefined || null) *)
SkipsResponse(tool, functionResponse) ==
  toolsDict[tool].isLongRunning /\ functionResponse \in {Undefined, Null}

(* faulty variant: step 6 is dropped, the altered response is never used *)
FinishKeepsOwn(S) ==
  LET final == S.c.functionResponse
      skip == toolsDict[S.c.tool].isLongRunning /\ final \in {Undefined, Null}
  IN [S EXCEPT !.d.pc = "next", !.r = IdleRun,
               !.c.functionResponse = final, !.c.emitted = ~skip,
               !.d.functionResponseEvents =
                  IF skip THEN @
                  ELSE Append(@, buildResponseEvent(S.c.tool, final, S.c,
                                                    invocationContext, S.d.i))]

(* faulty variant: a long-running call that is skipped is struck from the  *)
(* longRunningToolIds of the originating event                             *)
FinishStrikesId(S) ==
  LET final == IF IsDefined(S.c.alteredFunctionResponse)
               THEN S.c.alteredFunctionResponse ELSE S.c.functionResponse
      skip == SkipsResponse(S.c.tool, final)
  IN [S EXCEPT !.d.pc = "next", !.r = IdleRun,
               !.c.functionResponse = final, !.c.emitted = ~skip,
               !.d.functionCallEvent.longRunningToolIds =
                  IF skip THEN @ \ {S.c.functionCallId} ELSE @,
               !.d.functionResponseEvents =
                  IF skip THEN @
                  ELSE Append(@, buildResponseEvent(S.c.tool, final, S.c,
                                                    invocationContext, S.d.i))]

(* step 6 and the end of the loop body: the final response, the long-      *)
(* running check, buildResponseEvent and push                              *)
Finish(S) ==
  LET final == IF IsDefined(S.c.alteredFunctionResponse)
               THEN S.c.alteredFunctionResponse ELSE S.c.functionResponse
      skip == SkipsResponse(S.c.tool, final)
  IN [S EXCEPT !.d.pc = "next", !.r = IdleRun,
               !.c.functionResponse = final, !.c.emitted = ~skip,
               !.d.functionResponseEvents =
                  IF skip THEN @
                  ELSE Append(@, buildResponseEvent(S.c.tool, final, S.c,
                                                    invocationContext, S.d.i))]

(* step 5: agent-level after-tool callback j, or the end of the list *)
AgentAfter(S, j) ==
  IF j <= S.d.afterToolCallbacks
  THEN [S EXCEPT !.d.pc = "agentAfter", !.r = IdleRun,
                 !.c = Ask([@ EXCEPT !.cb = j], "agentAfter", j)]
  ELSE Finish(S)

(* normalisation and step 4: the call of runAfterToolCallback *)
AfterStage(S) ==
  [S EXCEPT !.d.pc = "afterTool",
            !.c = Ask([@ EXCEPT !.produced = S.c.functionResponse,
                                !.normalizedResponseForCallback =
                                   NormalizeForCallback(S.c.functionResponse)],
                      "afterTool", 0),
            !.r = runCallbacks("afterToolCallback", "dispatch")]

(* step 3: callToolAsync *)
CallTool(S) ==
  [S EXCEPT !.d.pc = "tool", !.r = IdleRun, !.c = Ask(@, "tool", 0)]

(* step 2: agent-level before-tool callback j, or the end of the list *)
AgentBefore(S, j) ==
  IF j <= S.d.beforeToolCallbacks
  THEN [S EXCEPT !.d.pc = "agentBefore", !.r = IdleRun,
                 !.c = Ask([@ EXCEPT !.cb = j], "agentBefore", j)]
  ELSE CallTool(S)

(* the end of handleFunctionCallsAsync *)
ReturnEvents(S) ==
  [S EXCEPT !.d.pc = "done",
            !.d.returned = IF Len(S.d.functionResponseEvents) = 0 THEN NullEvent
                           ELSE mergeParallelFunctionResponseEvents(
                                   S.d.functionResponseEvents)]

(* getLongRunningFunctionCalls: the ids of the calls of long-running tools *)
getLongRunningFunctionCalls(functionCalls) ==
  {functionCalls[k].id :
     k \in {j \in 1..Len(functionCalls) :
              /\ functionCalls[j].name # ""
              /\ functionCalls[j].name \in DOMAIN toolsDict
              /\ toolsDict[functionCalls[j].name].isLongRunning
              /\ functionCalls[j].id # NoId}}

(* handleFunctionCallsAsync up to its first await *)
handleFunctionCallsAsync(functionCallEvent, nBefore, nAfter, filters) ==
  LET toExecute == FilterCalls(functionCallEvent.calls, filters)
      S == [d |-> [IdleDispatch EXCEPT !.functionCallEvent = functionCallEvent,
                                       !.filters = filters,
                                       !.beforeToolCallbacks = nBefore,
                                       !.afterToolCallbacks = nAfter,
                                       !.functionCallsToExecute = toExecute],
            c |-> NewCall, r |-> IdleRun]
  IN IF Len(toExecute) = 0
     THEN [S EXCEPT !.d.pc = "done", !.d.returned = NullEvent]
     ELSE StartCall(S, 1)

Becomes(S) ==
  \E T \in {S} :
     /\ dispatch' = T.d
     /\ call' = T.c
     /\ run' = T.r
     /\ UNCHANGED <<plugins, registered, lastRegister, restVars>>

(* Runner.runAsync before it is called, and no session *)
NoMessage == [functionResponse |-> NoId, content |-> Undefined]
NoSession == [exists |-> FALSE, events |-> <<>>]
NoEvent == [author |-> "", functionCall |-> NoId, functionResponse |-> NoId,
            content |-> Undefined]
IdleTurn == [pc |-> "idle", given |-> NoMessage, message |-> NoMessage,
             userMessageResult |-> Undefined, agent |-> "", executed |-> FALSE,
             shortCircuit |-> FALSE, produced |-> <<>>, intercepted |-> <<>>,
             pending |-> NoEvent, emitted |-> <<>>, afterRuns |-> 0,
             error |-> NoError, base |-> 0]

(* the variables of the Runner at rest *)
NoTurn ==
  /\ turn = IdleTurn
  /\ stored = NoSession

(***************************************************************************)
(* The data of InMemorySessionService.  A session is named by appName,     *)
(* userId and id.  A state key is a sequence of fragments, its prefix      *)
(* first; a state map is a function on StateKeys, NoEntry for a key it     *)
(* does not have.  userState and appState are keyed by the key without     *)
(* its prefix.                                                             *)
(***************************************************************************)
Apps == {"app1", "app2"}
Users == {"u1", "u2"}
SessionRef(appName, userId, id) == [appName |-> appName, userId |-> userId, id |-> id]
SessionRefs == {SessionRef("app1", "u1", "s1"), SessionRef("app1", "u1", "s2"),
                SessionRef("app1", "u2", "s1"), SessionRef("app2", "u1", "s1")}

APP_PREFIX == "app:"
USER_PREFIX == "user:"
StateKeys == {<<"k">>, <<APP_PREFIX, "k">>, <<USER_PREFIX, "k">>}
EmptyState == [key \in StateKeys |-> NoEntry]

(* a slot of this.sessions[appName][userId] that holds no session *)
NoStored == [oid |-> 0, state |-> EmptyState, events |-> <<>>, lastUpdateTime |-> 0]

(* new InMemorySessionService(): users holds the appName and userId for    *)
(* which this.sessions[appName][userId] is an object, oids counts the      *)
(* Session objects the service has created, clock is Date.now()            *)
EmptyStore ==
  [sessions |-> [ref \in SessionRefs |-> NoStored],
   userState |-> [au \in Apps \X Users |-> EmptyState],
   appState |-> [a \in Apps |-> EmptyState],
   users |-> {}, oids |-> 0, clock |-> 1]

Tasks == {"t1", "t2"}
NoStoreEvent == [timestamp |-> 0, stateDelta |-> EmptyState]
IdleTask == [pc |-> "idle", session |-> SessionRef("", "", ""), found |-> FALSE,
             event |-> NoStoreEvent, storage |-> 0]
NoResult == [op |-> "", session |-> SessionRef("", "", ""), found |-> FALSE,
             value |-> NoStored, event |-> NoStoreEvent, listed |-> {}, threw |-> FALSE]

(* the variables of the session service at rest *)
NoStore ==
  /\ store = EmptyStore
  /\ tasks = [t \in Tasks |-> IdleTask]
  /\ returned = NoResult

(* the variables of the EventActions operations at rest *)
NoEventActions ==
  /\ heap = <<>>
  /\ sources = <<>>
  /\ target = NoObject
  /\ merged = NoObject
  /\ created = <<>>
  /\ authEvent = NoAuthEvent

(***************************************************************************)
(* Agent resolution (Runner.determineAgentForResumption).  The Runner is   *)
(* modelled from the specification of the repository, section 4.4, and     *)
(* from runner_test.ts, which fixes the agent tree and the expected agent  *)
(* of seven histories.                                                     *)
(*                                                                         *)
(* An event of the history is [author, functionCall, functionResponse]:    *)
(* the ids of the function call and of the function response it carries,   *)
(* NoId for none.                                                          *)
(***************************************************************************)
RootAgent == "root_agent"
SubAgents == {"sub_agent1", "sub_agent2", "non_transferable"}
DisallowTransferToParent == {"non_transferable"}
User == "user"
NoAgent == ""

(* rootAgent.findAgent(name): the node of that name, if the tree has one *)
findAgent(name) == IF name \in {RootAgent} \cup SubAgents THEN name ELSE NoAgent

TextEvent(a) == [author |-> a, functionCall |-> NoId, functionResponse |-> NoId]
CallEvent(a, id) == [author |-> a, functionCall |-> id, functionResponse |-> NoId]
ResponseEvent(id) == [author |-> User, functionCall |-> NoId, functionResponse |-> id]

(* faulty variant: the walk stops at any agent of the tree, transferable   *)
(* or not                                                                  *)
RECURSIVE WalkBackNoSkip(_, _)
WalkBackNoSkip(events, k) ==
  IF k = 0 THEN RootAgent
  ELSE LET a == events[k].author
       IN IF a = User \/ findAgent(a) = NoAgent THEN WalkBackNoSkip(events, k - 1)
          ELSE a

(* rule 2 and rule 3: the backward walk over events[1..k] *)
RECURSIVE WalkBack(_, _)
WalkBack(events, k) ==
  IF k = 0 THEN RootAgent
  ELSE LET a == events[k].author
       IN IF a = User THEN WalkBack(events, k - 1)
          ELSE IF a = RootAgent THEN RootAgent
          ELSE IF findAgent(a) = NoAgent THEN WalkBack(events, k - 1)
          ELSE IF a \in DisallowTransferToParent THEN WalkBack(events, k - 1)
          ELSE a

(* the events that carry the function call of that id *)
CallsOf(events, id) == {k \in 1..Len(events) : events[k].functionCall = id}

(* faulty variant: the response of the new message is correlated only with *)
(* the last event of the history that the user did not author              *)
determineAgentLastEventOnly(events, message) ==
  LET byAgents == {k \in 1..Len(events) : events[k].author # User}
      last == CHOOSE k \in byAgents : \A j \in byAgents : j <= k
  IN IF /\ message.functionResponse # NoId
        /\ byAgents # {}
        /\ events[last].functionCall = message.functionResponse
     THEN (IF findAgent(events[last].author) # NoAgent
           THEN findAgent(events[last].author) ELSE RootAgent)
     ELSE WalkBack(events, Len(events))

(* faulty variant: the author of the correlated call is resumed without    *)
(* looking it up in the tree                                               *)
determineAgentAnyAuthor(events, message) ==
  LET calls == CallsOf(events, message.functionResponse)
      callEvent == events[CHOOSE k \in calls : \A j \in calls : j <= k]
  IN IF message.functionResponse # NoId /\ calls # {}
     THEN callEvent.author
     ELSE WalkBack(events, Len(events))

(* rule 1, function-response correlation, then the backward walk *)
determineAgentForResumption(events, message) ==
  LET calls == CallsOf(events, message.functionResponse)
      callEvent == events[CHOOSE k \in calls : \A j \in calls : j <= k]
  IN IF message.functionResponse # NoId /\ calls # {}
     THEN (IF findAgent(callEvent.author) # NoAgent
           THEN findAgent(callEvent.author) ELSE RootAgent)
     ELSE WalkBack(events, Len(events))

MaxHistory == 3

(* the events an agent yields in a turn, at most *)
MaxTurnEvents == 2

Authors == {User, RootAgent, "unknown_agent"} \cup SubAgents
CallIds == {IdAt(1), IdAt(2)}

HistoryEvents ==
  {TextEvent(a) : a \in Authors}
    \cup {CallEvent(a, id) : a \in Authors \ {User}, id \in CallIds}
    \cup {ResponseEvent(IdAt(1))}

(* the histories: a function-call id is the id of one call only *)
Histories ==
  UNION {{h \in [1..n -> HistoryEvents] :
            \A id \in CallIds : Cardinality(CallsOf(h, id)) <= 1} : n \in 0..MaxHistory}

NewMessages == {[functionResponse |-> NoId]} \cup {[functionResponse |-> id] : id \in CallIds}

(* the variables of agent resolution at rest *)
NoResolution ==
  /\ history = <<>>
  /\ newMessage = [functionResponse |-> NoId]
  /\ agent = NoAgent

(* RESOLVE_AGENT: the Runner resolves the agent of the turn *)
ResolveAgent ==
  /\ agent = NoAgent
  /\ agent' = determineAgentForResumption(history, newMessage)
  /\ UNCHANGED <<pmVars, dVars, eaVars, rnVars, ssVars, history, newMessage>>

InitResolve ==
  /\ plugins = <<>>
  /\ registered = 0
  /\ lastRegister = [outcome |-> "none", plugin |-> PluginA]
  /\ run = IdleRun
  /\ dispatch = IdleDispatch
  /\ call = NewCall
  /\ NoEventActions
  /\ history \in Histories
  /\ newMessage \in NewMessages
  /\ agent = NoAgent
  /\ NoTurn
  /\ NoStore

NextResolve == ResolveAgent

SpecResolve == InitResolve /\ [][NextResolve]_vars

(***************************************************************************)
(* Actions of the dispatcher                                               *)
(***************************************************************************)
MaxBatch == 2

(* function calls of a model event: ids are given by position *)
CallKinds == {[name |-> "t", hasId |-> TRUE], [name |-> "lr", hasId |-> TRUE],
              [name |-> "ghost", hasId |-> TRUE], [name |-> "", hasId |-> TRUE],
              [name |-> "t", hasId |-> FALSE]}


(* the calls after the second of a batch are calls of the tool t *)
LaterKinds == {[name |-> "t", hasId |-> TRUE]}

FunctionCalls ==
  UNION {{[k \in 1..n |-> [id |-> IF kinds[k].hasId THEN IdAt(k) ELSE NoId,
                            name |-> kinds[k].name]] :
            kinds \in {ks \in [1..n -> CallKinds] : \A k \in 3..n : ks[k] \in LaterKinds}} :
           n \in 1..MaxBatch}

(* the originating events: function calls, and the ids of the long-running *)
(* ones as the flow that built the event recorded them                     *)
FunctionCallEvents ==
  {[calls |-> cs, longRunningToolIds |-> getLongRunningFunctionCalls(cs)] :
     cs \in FunctionCalls}

Dispatch(ev, nBefore, nAfter, f) ==
  /\ dispatch.pc = "idle"
  /\ run.pc = "idle"
  /\ Becomes(handleFunctionCallsAsync(ev, nBefore, nAfter, f))

(* faulty variant: the answer of the beforeTool hook does not stop step 2 *)
BeforeToolNoShortCircuit ==
  /\ dispatch.pc = "beforeTool"
  /\ run.pc \in {"returned", "threw"}
  /\ dispatch' = [dispatch EXCEPT !.pc = IF run.pc = "threw" THEN "threw"
                                         ELSE IF dispatch.beforeToolCallbacks > 0
                                              THEN "agentBefore" ELSE "tool"]
  /\ call' = IF run.pc = "threw" THEN call
             ELSE [call EXCEPT !.functionResponse = run.result,
                               !.answers = Append(@, Return(run.result)),
                               !.cb = IF dispatch.beforeToolCallbacks > 0 THEN 1 ELSE 0,
                               !.asked = Append(@, IF dispatch.beforeToolCallbacks > 0
                                                   THEN [stage |-> "agentBefore", idx |-> 1]
                                                   ELSE [stage |-> "tool", idx |-> 0])]
  /\ run' = IdleRun
  /\ UNCHANGED <<plugins, registered, lastRegister, restVars>>

(* runBeforeToolCallback settled *)
BeforeToolSettled ==
  /\ dispatch.pc = "beforeTool"
  /\ run.pc \in {"returned", "threw"}
  /\ Becomes(IF run.pc = "threw" THEN Fail(State, "plugin", run.error.message)
             ELSE LET S == [State EXCEPT !.c = Answer([@ EXCEPT !.functionResponse = run.result],
                                                      Return(run.result))]
                  IN IF IsDefined(run.result) THEN AfterStage(S) ELSE AgentBefore(S, 1))

(* the agent-level before-tool callback in progress settled *)
AgentBeforeSettled(o) ==
  /\ dispatch.pc = "agentBefore"
  /\ Becomes(IF o.type = "throw" THEN Fail(State, "agentCallback", o.thrown.message)
             ELSE LET S == [State EXCEPT !.c = Answer([@ EXCEPT !.functionResponse = o.value], o)]
                  IN IF IsDefined(o.value) THEN AfterStage(S)
                     ELSE AgentBefore(S, call.cb + 1))

(* tool.runAsync returned *)
ToolReturns(o) ==
  /\ dispatch.pc = "tool"
  /\ o.type = "return"
  /\ Becomes(AfterStage([State EXCEPT !.c = Answer([@ EXCEPT !.functionResponse = o.value], o)]))

(* what a tool may leave in toolContext.actions while it runs *)
ToolActions ==
  {Literal(MapFieldSet, {}, {<<"stateDelta", "a", 1>>}),
   Literal(MapFieldSet, {}, {<<"stateDelta", "a", 2>>, <<"stateDelta", "b", 3>>,
                             <<"skipSummarization", "", True>>}),
   Literal(MapFieldSet, {}, {<<"artifactDelta", "a", 1>>,
                             <<"requestedAuthConfigs", "b", 1>>,
                             <<"transferToAgent", "", AgentX>>,
                             <<"skipSummarization", "", False>>}),
   Literal(MapFieldSet, {}, {<<"requestedToolConfirmations", "a", 3>>,
                             <<"escalate", "", True>>})}

(* the tool, while it runs, fills the actions of its toolContext *)
ToolPopulates(a) ==
  /\ dispatch.pc = "tool"
  /\ call.actions = EmptyActions
  /\ call' = [call EXCEPT !.actions = a]
  /\ UNCHANGED <<plugins, registered, lastRegister, run, dispatch, restVars>>

(* faulty variant: the exception of the tool leaves handleFunctionCallsAsync *)
ToolThrowsAborts(o) ==
  /\ dispatch.pc = "tool"
  /\ o.type = "throw"
  /\ dispatch' = [dispatch EXCEPT !.pc = "threw",
                                  !.thrown = [source |-> "tool", message |-> o.thrown.message]]
  /\ call' = [call EXCEPT !.answers = Append(@, o)]
  /\ UNCHANGED <<plugins, registered, lastRegister, run, restVars>>

(* tool.runAsync threw: step 3a, the call of runOnToolErrorCallback *)
ToolThrows(o) ==
  /\ dispatch.pc = "tool"
  /\ o.type = "throw"
  /\ Becomes([State EXCEPT !.d.pc = "onToolError",
                           !.c = Ask(Answer([@ EXCEPT !.err = ToError(o.thrown)], o),
                                     "onToolError", 0),
                           !.r = runCallbacks("onToolErrorCallback", "dispatch")])

(* runOnToolErrorCallback settled *)
OnToolErrorSettled ==
  /\ dispatch.pc = "onToolError"
  /\ run.pc \in {"returned", "threw"}
  /\ Becomes(IF run.pc = "threw" THEN Fail(State, "plugin", run.error.message)
             ELSE AfterStage([State EXCEPT !.c = Answer(
                     [@ EXCEPT !.functionResponse =
                          IF IsDefined(run.result) THEN run.result
                          ELSE ErrorObj(ToolErrorMessage(call.err))],
                     Return(run.result))]))

(* runAfterToolCallback settled *)
AfterToolSettled ==
  /\ dispatch.pc = "afterTool"
  /\ run.pc \in {"returned", "threw"}
  /\ Becomes(IF run.pc = "threw" THEN Fail(State, "plugin", run.error.message)
             ELSE LET S == [State EXCEPT !.c = Answer([@ EXCEPT !.alteredFunctionResponse = run.result],
                                                      Return(run.result))]
                  IN IF IsDefined(run.result) THEN Finish(S) ELSE AgentAfter(S, 1))

(* the agent-level after-tool callback in progress settled *)
AgentAfterSettled(o) ==
  /\ dispatch.pc = "agentAfter"
  /\ Becomes(IF o.type = "throw" THEN Fail(State, "agentCallback", o.thrown.message)
             ELSE LET S == [State EXCEPT !.c = Answer([@ EXCEPT !.alteredFunctionResponse = o.value], o)]
                  IN IF IsDefined(o.value) THEN Finish(S)
                     ELSE AgentAfter(S, call.cb + 1))

(* the for-of loop over functionCallsToExecute moves on: the next call, or *)
(* the code after the loop.  No await separates it from the end of the     *)
(* previous iteration; it is a step of its own so that the locals of a     *)
(* finished iteration can be observed.                                     *)
NextCall ==
  /\ dispatch.pc = "next"
  /\ Becomes(IF dispatch.i < Len(dispatch.functionCallsToExecute)
             THEN StartCall(State, dispatch.i + 1)
             ELSE ReturnEvents(State))

(* the plugin managers the dispatcher is exercised with *)
DispatchPlugins == {<<>>, <<PluginB, PluginA>>}

(* lengths of the beforeToolCallbacks and afterToolCallbacks lists *)
CallbackLists == {<<0, 0>>, <<2, 2>>}

FilterArgs == {NoFilters, Filters({}), Filters({IdAt(1)})}

InitDispatch ==
  /\ plugins \in DispatchPlugins
  /\ registered = Len(plugins)
  /\ lastRegister = [outcome |-> "none", plugin |-> PluginA]
  /\ run = IdleRun
  /\ dispatch = IdleDispatch
  /\ call = NewCall
  /\ NoEventActions
  /\ NoResolution
  /\ NoTurn
  /\ NoStore

NextDispatch ==
  \/ dispatch.pc = "idle" /\ \E ev \in FunctionCallEvents, n \in CallbackLists, f \in FilterArgs :
        Dispatch(ev, n[1], n[2], f)
  \/ run.pc = "inCallback" /\ \E o \in AllOutcomes : CallbackReturns(o)
  \/ run.pc = "inCallback" /\ \E o \in AllOutcomes : CallbackThrows(o)
  \/ BeforeToolSettled
  \/ dispatch.pc = "agentBefore" /\ \E o \in AgentCallbackOutcomes : AgentBeforeSettled(o)
  \/ dispatch.pc = "tool" /\ \E o \in ToolOutcomes : ToolReturns(o)
  \/ dispatch.pc = "tool" /\ \E o \in ToolOutcomes : ToolThrows(o)
  \/ OnToolErrorSettled
  \/ AfterToolSettled
  \/ dispatch.pc = "agentAfter" /\ \E o \in AgentCallbackOutcomes : AgentAfterSettled(o)
  \/ NextCall

SpecDispatch == InitDispatch /\ [][NextDispatch]_vars

(* the dispatcher with one function call and a plugin that answers with    *)
(* null, false, 0, '' or {}                                                *)
InitFalsy ==
  /\ plugins = <<PluginF, PluginA>>
  /\ registered = Len(plugins)
  /\ lastRegister = [outcome |-> "none", plugin |-> PluginA]
  /\ run = IdleRun
  /\ dispatch = IdleDispatch
  /\ call = NewCall
  /\ NoEventActions
  /\ NoResolution
  /\ NoTurn
  /\ NoStore

NextFalsy ==
  \/ dispatch.pc = "idle" /\ \E ev \in {e \in FunctionCallEvents : Len(e.calls) = 1},
                                 n \in CallbackLists :
        Dispatch(ev, n[1], n[2], NoFilters)
  \/ run.pc = "inCallback" /\ \E o \in FalsyOutcomes \cup AllOutcomes : CallbackReturns(o)
  \/ run.pc = "inCallback" /\ \E o \in AllOutcomes : CallbackThrows(o)
  \/ BeforeToolSettled
  \/ dispatch.pc = "agentBefore" /\ \E o \in AgentCallbackOutcomes : AgentBeforeSettled(o)
  \/ dispatch.pc = "tool" /\ \E o \in ToolOutcomes : ToolReturns(o)
  \/ dispatch.pc = "tool" /\ \E o \in ToolOutcomes : ToolThrows(o)
  \/ OnToolErrorSettled
  \/ AfterToolSettled
  \/ dispatch.pc = "agentAfter" /\ \E o \in AgentCallbackOutcomes : AgentAfterSettled(o)
  \/ NextCall

SpecFalsy == InitFalsy /\ [][NextFalsy]_vars

(***************************************************************************)
(* createEventActions and mergeEventActions called on objects of the heap  *)
(***************************************************************************)
MaxSources == 2
MaxCreated == 2

(* the sources are drawn from: undefined, {}, and partial EventActions *)
SourceLiterals ==
  {NoLiteral,
   EmptyLiteral,
   Literal({"stateDelta"}, {}, {<<"stateDelta", "a", 1>>}),
   Literal({"stateDelta"}, {}, {<<"stateDelta", "a", 2>>, <<"stateDelta", "b", 3>>,
                                <<"skipSummarization", "", True>>}),
   Literal({"artifactDelta"}, {"stateDelta", "skipSummarization"},
           {<<"artifactDelta", "a", 1>>, <<"escalate", "", False>>}),
   Literal({"requestedAuthConfigs", "requestedToolConfirmations"}, {},
           {<<"requestedAuthConfigs", "b", 1>>, <<"requestedToolConfirmations", "a", 3>>,
            <<"transferToAgent", "", AgentX>>, <<"escalate", "", True>>})}

(* the targets: none, or an EventActions with its four mapping fields *)
TargetLiterals ==
  {NoLiteral,
   Literal(MapFieldSet, {}, {<<"stateDelta", "a", 1>>, <<"escalate", "", True>>}),
   Literal(MapFieldSet, {}, {<<"stateDelta", "b", 2>>, <<"artifactDelta", "a", 2>>,
                             <<"artifactDelta", "b", 2>>,
                             <<"skipSummarization", "", False>>})}

(* result = mergeEventActions(sources, target) *)
MergeEventActions ==
  /\ merged = NoObject
  /\ LET m == mergeEventActions(heap, sources, target)
     IN /\ heap' = m.heap
        /\ merged' = m.obj
  /\ UNCHANGED <<pmVars, dVars, raVars, rnVars, ssVars, sources, target, created, authEvent>>

(* createEventActions(state): state is source k, or is not given (k = 0) *)
CreateEventActions(k) ==
  /\ Len(created) < MaxCreated
  /\ k \in 0..Len(sources)
  /\ LET state == IF k = 0 THEN NoObject ELSE sources[k]
         c == createEventActions(heap, state)
     IN /\ heap' = c.heap
        /\ created' = Append(created, [state |-> state, obj |-> c.obj])
  /\ UNCHANGED <<pmVars, dVars, raVars, rnVars, ssVars, sources, target, merged, authEvent>>

InitMerge ==
  /\ plugins = <<>>
  /\ registered = 0
  /\ lastRegister = [outcome |-> "none", plugin |-> PluginA]
  /\ run = IdleRun
  /\ dispatch = IdleDispatch
  /\ call = NewCall
  /\ \E n \in 0..MaxSources :
        \E lits \in [1..n -> SourceLiterals], t \in TargetLiterals :
           LET m == NewAll([heap |-> <<>>, objs |-> <<>>], <<t>> \o lits, 1)
           IN /\ heap = m.heap
              /\ target = m.objs[1]
              /\ sources = Tail(m.objs)
  /\ merged = NoObject
  /\ created = <<>>
  /\ authEvent = NoAuthEvent
  /\ NoResolution
  /\ NoTurn
  /\ NoStore

NextMerge ==
  \/ MergeEventActions
  \/ \E k \in 0..MaxSources : CreateEventActions(k)

SpecMerge == InitMerge /\ [][NextMerge]_vars

(* mergeEventActions(sources, target) called with one of the sources as    *)
(* the target, as in mergeEventActions([a, b], a); the target is an        *)
(* EventActions, with its four mapping fields                              *)
AliasLiterals == SourceLiterals \cup (TargetLiterals \ {NoLiteral})

InitAlias ==
  /\ plugins = <<>>
  /\ registered = 0
  /\ lastRegister = [outcome |-> "none", plugin |-> PluginA]
  /\ run = IdleRun
  /\ dispatch = IdleDispatch
  /\ call = NewCall
  /\ \E n \in 1..MaxSources :
        \E lits \in [1..n -> AliasLiterals], t \in 1..n :
           LET m == NewAll([heap |-> <<>>, objs |-> <<>>], lits, 1)
           IN /\ lits[t] \in TargetLiterals
              /\ heap = m.heap
              /\ sources = m.objs
              /\ target = m.objs[t]
  /\ merged = NoObject
  /\ created = <<>>
  /\ authEvent = NoAuthEvent
  /\ NoResolution
  /\ NoTurn
  /\ NoStore

SpecAlias == InitAlias /\ [][NextMerge]_vars

(***************************************************************************)
(* generateAuthEvent called on a function-response event whose actions are *)
(* an object of the heap                                                   *)
(***************************************************************************)
AF_FUNCTION_CALL_ID_PREFIX == "adk-"
REQUEST_EUC_FUNCTION_CALL_NAME == "adk_request_credential"

(* what randomUUID can return *)
Uuids == 1..4

(* generateClientFunctionCallId(), uuid being what randomUUID returned *)
generateClientFunctionCallId(uuid) == <<AF_FUNCTION_CALL_ID_PREFIX, uuid>>

(* the parts pushed by the loop over Object.entries(requestedAuthConfigs), *)
(* for the keys from k on; ids[key] is what randomUUID returned in the     *)
(* iteration of key                                                        *)
RECURSIVE AuthParts(_, _, _)
AuthParts(configs, ids, keys) ==
  IF keys = <<>> THEN <<>>
  ELSE LET functionCallId == Head(keys)
       IN (IF configs[functionCallId] = NoEntry THEN <<>>
           ELSE <<[functionCall |->
                     [name |-> REQUEST_EUC_FUNCTION_CALL_NAME,
                      args |-> [function_call_id |-> functionCallId,
                                auth_config |-> configs[functionCallId]],
                      id |-> generateClientFunctionCallId(ids[functionCallId])]]>>)
          \o AuthParts(configs, ids, Tail(keys))

(* the keys of a mapping container in the order Object.entries gives them *)
EntryOrder == <<"a", "b">>

(* generateAuthEvent(invocationContext, functionResponseEvent): undefined  *)
(* (NullEvent) when !actions?.requestedAuthConfigs, else an event with one *)
(* function call per entry                                                 *)
generateAuthEvent(h, context, functionResponseEvent, ids, now) ==
  IF functionResponseEvent.actions = NoObject
     \/ ~Truthy(Get(functionResponseEvent.actions, "requestedAuthConfigs"))
  THEN NullEvent
  ELSE LET parts == AuthParts(At(h, functionResponseEvent.actions["requestedAuthConfigs"]),
                              ids, EntryOrder)
       IN Event([invocationId |-> context.invocationId,
                 author |-> context.agent.name,
                 branch |-> context.branch,
                 content |-> [parts |-> parts, role |-> functionResponseEvent.role],
                 longRunningToolIds |->
                    {parts[k].functionCall.id : k \in 1..Len(parts)}], now)

(* the auth configs and the requestedAuthConfigs maps drawn from *)
AuthConfigs == {1, 2}
AuthEntrySets ==
  {es \in SUBSET {<<"requestedAuthConfigs", k, c>> : k \in Keys, c \in AuthConfigs} :
     \A e1 \in es, e2 \in es : e1[2] = e2[2] => e1 = e2}

(* the actions of the function-response event: none, {}, an object with    *)
(* requestedAuthConfigs undefined, and EventActions whose                  *)
(* requestedAuthConfigs has no, one or two entries                         *)
AuthLiterals ==
  {NoLiteral, EmptyLiteral, Literal({}, {"requestedAuthConfigs"}, {})}
    \cup {Literal(MapFieldSet, {}, es) : es \in AuthEntrySets}

Roles == {"user", "model"}

(* authEvent = generateAuthEvent(invocationContext, functionResponseEvent); *)
(* randomUUID returns a value it has not returned before                    *)
GenerateAuthEvent(ids) ==
  /\ ~authEvent.called
  /\ \A j \in Keys, k \in Keys : ids[j] = ids[k] => j = k
  /\ authEvent' = [authEvent EXCEPT
                     !.called = TRUE,
                     !.returned = generateAuthEvent(heap, invocationContext,
                                                    authEvent.functionResponseEvent, ids, 1)]
  /\ UNCHANGED <<pmVars, dVars, raVars, rnVars, ssVars, heap, sources, target, merged,
                 created>>

InitAuth ==
  /\ plugins = <<>>
  /\ registered = 0
  /\ lastRegister = [outcome |-> "none", plugin |-> PluginA]
  /\ run = IdleRun
  /\ dispatch = IdleDispatch
  /\ call = NewCall
  /\ \E lit \in AuthLiterals, role \in Roles :
        LET n == New(<<>>, lit)
        IN /\ heap = n.heap
           /\ authEvent = [NoAuthEvent EXCEPT
                             !.functionResponseEvent = [actions |-> n.obj, role |-> role]]
  /\ sources = <<>>
  /\ target = NoObject
  /\ merged = NoObject
  /\ created = <<>>
  /\ NoResolution
  /\ NoTurn
  /\ NoStore

NextAuth == \E ids \in [Keys -> Uuids] : GenerateAuthEvent(ids)

SpecAuth == InitAuth /\ [][NextAuth]_vars

(* The dispatcher with tools that fill toolContext.actions: no plugin, no  *)
(* agent-level callback, no filters, every call names a tool.              *)
ActionBatches ==
  {ev \in FunctionCallEvents :
     \A k \in 1..Len(ev.calls) : ev.calls[k].name \in DOMAIN toolsDict /\ ev.calls[k].id # NoId}

ActionToolOutcomes == {Return(Undefined), Return(Obj("T"))}

InitActions ==
  /\ plugins = <<>>
  /\ registered = 0
  /\ lastRegister = [outcome |-> "none", plugin |-> PluginA]
  /\ run = IdleRun
  /\ dispatch = IdleDispatch
  /\ call = NewCall
  /\ NoEventActions
  /\ NoResolution
  /\ NoTurn
  /\ NoStore

NextActions ==
  \/ dispatch.pc = "idle" /\ \E ev \in ActionBatches : Dispatch(ev, 0, 0, NoFilters)
  \/ BeforeToolSettled
  \/ \E a \in ToolActions : ToolPopulates(a)
  \/ \E o \in ActionToolOutcomes : ToolReturns(o)
  \/ AfterToolSettled
  \/ NextCall

SpecActions == InitActions /\ [][NextActions]_vars

InitPM ==
  /\ \E given \in ConstructorArgs :
        /\ ~Constructor(<<>>, given).threw
        /\ plugins = Constructor(<<>>, given).plugins
  /\ registered = Len(plugins)
  /\ lastRegister = [outcome |-> "none", plugin |-> PluginA]
  /\ run = IdleRun
  /\ dispatch = IdleDispatch
  /\ call = NewCall
  /\ NoEventActions
  /\ NoResolution
  /\ NoTurn
  /\ NoStore

NextPM ==
  \/ \E p \in PluginPool : RegisterPlugin(p)
  \/ \E hook \in Hooks : RunHook(hook)
  \/ \E o \in AllOutcomes : CallbackReturns(o)
  \/ \E o \in AllOutcomes : CallbackThrows(o)
  \/ RunSettled

SpecPM == InitPM /\ [][NextPM]_vars

(***************************************************************************)
(* Runner.runAsync (the invocation loop).  The Runner's source is not part *)
(* of the sources at hand: the loop is modelled from section 4.5 of the    *)
(* specification of the repository, on top of the PluginManager above      *)
(* (plugin_manager.ts) and with the plugins, agents and messages of        *)
(* runner_test.ts.                                                         *)
(*                                                                         *)
(* A step of the loop is a transformer of R == [t, s, r]: the activation,  *)
(* the stored session and the hook run.  turn.emitted is what the caller   *)
(* of the generator has received, turn.produced what the agent yielded,    *)
(* turn.intercepted what onEvent answered for each of them.                *)
(***************************************************************************)
RunnerState == [t |-> turn, s |-> stored, r |-> run]

(* an event of the session: the fields agent resolution reads, and content *)
RunnerEvent(author, content) ==
  [author |-> author, functionCall |-> NoId, functionResponse |-> NoId,
   content |-> content]

(* the event of the user's message *)
UserEvent(message) ==
  [author |-> User, functionCall |-> NoId,
   functionResponse |-> message.functionResponse, content |-> message.content]

(* the event a plugin's onEventCallback returns (MockPlugin: author '') *)
PluginEvent(content) == RunnerEvent("", content)

(* the k-th event the agent yields in a turn *)
Reply(k) == [kind |-> "object", tag |-> "reply", inner |-> <<k>>]

(* sessionService.appendEvent, as far as the session's events go *)
AppendToSession(s, event) == [s EXCEPT !.events = Append(@, event)]

(* the Runner awaits a hook runner of the plugin manager *)
StartHook(R, hook, pc) ==
  [R EXCEPT !.r = runCallbacks(hook, "runner"), !.t.pc = pc]

(* the hook runner rejected: the error leaves runAsync, the generator is   *)
(* finished                                                                *)
Abort(R) ==
  [R EXCEPT !.t.pc = "failed", !.t.error = R.r.error, !.t.pending = NoEvent]

(* START: the session is looked up, then RESOLVE_MESSAGE begins *)
runAsync(R, message) ==
  IF ~R.s.exists
  THEN [R EXCEPT !.t.pc = "failed", !.t.given = message,
                 !.t.error = NewError(<<"Session not found">>, NoThrown)]
  ELSE StartHook([R EXCEPT !.t.given = message, !.t.message = message,
                           !.t.base = Len(R.s.events)],
                 "onUserMessageCallback", "onUserMessage")

(* faulty variant: the message persisted is the one the caller gave *)
ResolveMessageKeepsGiven(R) ==
  StartHook([R EXCEPT !.t.userMessageResult = R.r.result,
                      !.s = AppendToSession(@, UserEvent(R.t.given))],
            "beforeRunCallback", "beforeRun")

(* RESOLVE_MESSAGE, after onUserMessage: the Content a plugin returned     *)
(* replaces the message; the message is persisted as the user's event      *)
ResolveMessage(R) ==
  LET m == IF IsDefined(R.r.result)
           THEN [functionResponse |-> NoId, content |-> R.r.result]
           ELSE R.t.message
  IN StartHook([R EXCEPT !.t.userMessageResult = R.r.result, !.t.message = m,
                         !.s = AppendToSession(@, UserEvent(m))],
               "beforeRunCallback", "beforeRun")

(* faulty variant: a canned response ends the turn at once *)
BeforeRunEndsTurn(R) ==
  IF IsDefined(R.r.result)
  THEN [R EXCEPT !.t.shortCircuit = TRUE, !.t.pc = "done", !.r = IdleRun]
  ELSE [R EXCEPT !.t.agent = determineAgentForResumption(R.s.events, R.t.message),
                 !.t.executed = TRUE, !.t.pc = "execute", !.r = IdleRun]

(* RESOLVE_MESSAGE, after beforeRun: a canned response short-circuits the  *)
(* turn; otherwise RESOLVE_AGENT and EXECUTE                               *)
BeforeRun(R) ==
  IF IsDefined(R.r.result)
  THEN [R EXCEPT !.t.shortCircuit = TRUE,
                 !.t.pending = RunnerEvent("model", R.r.result),
                 !.t.pc = "persist", !.r = IdleRun]
  ELSE [R EXCEPT !.t.agent = determineAgentForResumption(R.s.events, R.t.message),
                 !.t.executed = TRUE, !.t.pc = "execute", !.r = IdleRun]

(* the agent yields its next event: INTERCEPT begins *)
Produce(R) ==
  LET event == RunnerEvent(R.t.agent, Reply(Len(R.t.produced) + 1))
  IN StartHook([R EXCEPT !.t.produced = Append(@, event), !.t.pending = event],
               "onEventCallback", "intercept")

(* faulty variant: the event a plugin returned is dropped *)
InterceptKeepsOriginal(R) ==
  [R EXCEPT !.t.intercepted = Append(@, R.r.result), !.t.pc = "persist", !.r = IdleRun]

(* INTERCEPT, after onEvent: the event a plugin returned replaces the      *)
(* agent's                                                                 *)
Intercept(R) ==
  [R EXCEPT !.t.intercepted = Append(@, R.r.result),
            !.t.pending = IF IsDefined(R.r.result) THEN PluginEvent(R.r.result) ELSE @,
            !.t.pc = "persist", !.r = IdleRun]

(* faulty variant: the event is yielded without being appended *)
PersistNothing(R) == [R EXCEPT !.t.pc = "emit"]

(* PERSIST: the event is appended to the session *)
Persist(R) == [R EXCEPT !.s = AppendToSession(@, R.t.pending), !.t.pc = "emit"]

(* EMIT: the event is yielded; the generator is suspended until the caller *)
(* asks for the next event                                                 *)
Emit(R) ==
  [R EXCEPT !.t.emitted = Append(@, R.t.pending), !.t.pending = NoEvent,
            !.t.pc = IF R.t.shortCircuit THEN "drained" ELSE "execute"]

(* END: the event sequence is exhausted, afterRun is run *)
Exhausted(R) ==
  StartHook([R EXCEPT !.t.afterRuns = @ + 1], "afterRunCallback", "afterRun")

(* afterRun returned: runAsync returns *)
AfterRun(R) == [R EXCEPT !.t.pc = "done", !.r = IdleRun]

RunnerBecomes(R) ==
  \E T \in {R} :
     /\ turn' = T.t
     /\ stored' = T.s
     /\ run' = T.r
     /\ UNCHANGED <<plugins, registered, lastRegister, dVars, eaVars, raVars, ssVars>>

(* the hook run the Runner awaits has settled *)
Settled(pc) == turn.pc = pc /\ run.caller = "runner" /\ run.pc \in {"returned", "threw"}

(***************************************************************************)
(* Actions of the Runner                                                   *)
(***************************************************************************)
RunAsync(message) ==
  /\ turn.pc = "idle"
  /\ run.pc = "idle"
  /\ RunnerBecomes(runAsync(RunnerState, message))

OnUserMessageSettled ==
  /\ Settled("onUserMessage")
  /\ RunnerBecomes(IF run.pc = "threw" THEN Abort(RunnerState)
                   ELSE ResolveMessage(RunnerState))

BeforeRunSettled ==
  /\ Settled("beforeRun")
  /\ RunnerBecomes(IF run.pc = "threw" THEN Abort(RunnerState)
                   ELSE BeforeRun(RunnerState))

AgentYields ==
  /\ turn.pc = "execute"
  /\ Len(turn.produced) < MaxTurnEvents
  /\ RunnerBecomes(Produce(RunnerState))

OnEventSettled ==
  /\ Settled("intercept")
  /\ RunnerBecomes(IF run.pc = "threw" THEN Abort(RunnerState)
                   ELSE Intercept(RunnerState))

PersistEvent ==
  /\ turn.pc = "persist"
  /\ RunnerBecomes(Persist(RunnerState))

EmitEvent ==
  /\ turn.pc = "emit"
  /\ RunnerBecomes(Emit(RunnerState))

SequenceExhausted ==
  /\ turn.pc \in {"execute", "drained"}
  /\ RunnerBecomes(Exhausted(RunnerState))

AfterRunSettled ==
  /\ Settled("afterRun")
  /\ RunnerBecomes(IF run.pc = "threw" THEN Abort(RunnerState)
                   ELSE AfterRun(RunnerState))

(* the plugin managers, sessions and messages the Runner is exercised with *)
RunnerPlugins == {<<>>, <<PluginA>>, <<PluginB, PluginA>>, <<PluginA, PluginC>>}

StartSessions ==
  {NoSession,
   [exists |-> TRUE, events |-> <<>>],
   [exists |-> TRUE, events |-> <<RunnerEvent("sub_agent1", Obj("old"))>>],
   [exists |-> TRUE,
    events |-> <<[RunnerEvent("sub_agent2", Obj("call")) EXCEPT !.functionCall = IdAt(1)],
                 RunnerEvent(RootAgent, Obj("old"))>>]}

Messages == {[functionResponse |-> NoId, content |-> Obj("hello")],
             [functionResponse |-> IdAt(1), content |-> Obj("answer")]}

(* what a hook of the Runner may do: the four hooks are typed              *)
(* Content|undefined, Event|undefined or void                              *)
RunnerOutcomes == {Return(Undefined), Return(Obj("P")), Throw(ErrBoom), Throw(StrOops)}

InitRunner ==
  /\ plugins \in RunnerPlugins
  /\ registered = Len(plugins)
  /\ lastRegister = [outcome |-> "none", plugin |-> PluginA]
  /\ run = IdleRun
  /\ dispatch = IdleDispatch
  /\ call = NewCall
  /\ NoEventActions
  /\ NoResolution
  /\ turn = IdleTurn
  /\ stored \in StartSessions
  /\ NoStore

NextRunner ==
  \/ \E m \in Messages : RunAsync(m)
  \/ run.pc = "inCallback" /\ \E o \in RunnerOutcomes : CallbackReturns(o)
  \/ run.pc = "inCallback" /\ \E o \in RunnerOutcomes : CallbackThrows(o)
  \/ OnUserMessageSettled
  \/ BeforeRunSettled
  \/ AgentYields
  \/ OnEventSettled
  \/ PersistEvent
  \/ EmitEvent
  \/ SequenceExhausted
  \/ AfterRunSettled

SpecRunner == InitRunner /\ [][NextRunner]_vars

(***************************************************************************)
(* InMemorySessionService.  A call that awaits is one action per stretch   *)
(* of code between two awaits; tasks[t] holds the locals of the call that  *)
(* task t is in.                                                           *)
(***************************************************************************)
MaxClock == 3

(* Object.keys of a state map *)
KeysOf(map) == {key \in StateKeys : map[key] # NoEntry}
StateOf(keys, value) == [key \in StateKeys |-> IF key \in keys THEN value ELSE NoEntry]

(* key.startsWith(prefix) and key.replace(prefix, ''), which removes the   *)
(* first occurrence of the prefix                                          *)
startsWith(key, prefix) == Len(key) > 0 /\ key[1] = prefix
replace(key, prefix) ==
  IF \E i \in 1..Len(key) : key[i] = prefix
  THEN LET i == CHOOSE i \in 1..Len(key) :
                   key[i] = prefix /\ \A j \in 1..(i - 1) : key[j] # prefix
       IN SubSeq(key, 1, i - 1) \o SubSeq(key, i + 1, Len(key))
  ELSE key

(* for (key of Object.keys(scoped)) state[prefix + key] = scoped[key] *)
Overlay(state, prefix, scoped) ==
  [key \in StateKeys |->
     IF \E k \in KeysOf(scoped) : <<prefix>> \o k = key
     THEN scoped[CHOOSE k \in KeysOf(scoped) : <<prefix>> \o k = key]
     ELSE state[key]]

(* faulty variant: a user without state ends the function before the       *)
(* values of appState are copied                                           *)
mergeStateUserFirst(S, appName, userId, copiedSession) ==
  IF KeysOf(S.userState[<<appName, userId>>]) = {}
  THEN copiedSession
  ELSE [copiedSession EXCEPT
          !.state = Overlay(Overlay(@, APP_PREFIX, S.appState[appName]),
                            USER_PREFIX, S.userState[<<appName, userId>>])]

(* mergeState(appName, userId, copiedSession): the values of appState come *)
(* first, the function returns early when the user has no state            *)
mergeState(S, appName, userId, copiedSession) ==
  LET withApp == [copiedSession EXCEPT
                    !.state = Overlay(@, APP_PREFIX, S.appState[appName])]
  IN IF KeysOf(S.userState[<<appName, userId>>]) = {}
     THEN withApp
     ELSE [withApp EXCEPT
             !.state = Overlay(@, USER_PREFIX, S.userState[<<appName, userId>>])]

(* faulty variant: the session object of the store itself is handed out *)
structuredCloneShares(session) == session

(* structuredClone(session): an object that the store does not hold *)
structuredClone(session) == [session EXCEPT !.oid = 0]

(* the store after the service or its caller has written to the session    *)
(* object: the writes show in the store when the object is the stored one  *)
Handed(S, ref, object) ==
  IF object.oid # 0 /\ object.oid = S.sessions[ref].oid
  THEN [S EXCEPT !.sessions[ref] = object]
  ELSE S

(* createSession: the new Session takes the place of whatever the slot of  *)
(* its id held; ref.id is sessionId || randomUUID()                        *)
createSession(S, ref, state) ==
  LET session == [oid |-> S.oids + 1, state |-> state, events |-> <<>>,
                  lastUpdateTime |-> S.clock]
  IN [S EXCEPT !.sessions[ref] = session, !.users = @ \cup {<<ref.appName, ref.userId>>},
               !.oids = @ + 1, !.clock = @ + 1]

(* GetSessionConfig; a number that is 0 is falsy, as one that is not given *)
NoConfig == [numRecentEvents |-> 0, afterTimestamp |-> 0]
Configs == {NoConfig,
            [numRecentEvents |-> 1, afterTimestamp |-> 0],
            [numRecentEvents |-> 0, afterTimestamp |-> 3]}

(* faulty variant: events.slice(0, n) *)
SliceFirst(events, n) ==
  SubSeq(events, 1, IF Len(events) > n THEN n ELSE Len(events))

(* events.slice(-n) for n > 0 *)
SliceLast(events, n) ==
  SubSeq(events, (IF Len(events) > n THEN Len(events) - n ELSE 0) + 1, Len(events))

(* the while loop of getSession: the index of the last event whose         *)
(* timestamp is before afterTimestamp, 0 when there is none; events.slice  *)
(* is applied only when that index is not negative in the code, and        *)
(* slice(0) is the whole list                                              *)
AfterTimestamp(events, afterTimestamp) ==
  LET before == {i \in 1..Len(events) : events[i].timestamp < afterTimestamp}
      i == IF before = {} THEN 0 ELSE CHOOSE k \in before : \A j \in before : j <= k
  IN SubSeq(events, i + 1, Len(events))

(* faulty variant: this.sessions[appName][userId][sessionId] is read       *)
(* without the checks of the two outer objects                             *)
LookupUnguarded(S, ref) ==
  IF <<ref.appName, ref.userId>> \notin S.users
  THEN "TypeError"
  ELSE IF S.sessions[ref].oid = 0 THEN "absent" ELSE "found"

(* !this.sessions[appName] || !this.sessions[appName][userId] ||           *)
(* !this.sessions[appName][userId][sessionId]                              *)
Lookup(S, ref) ==
  IF <<ref.appName, ref.userId>> \notin S.users
  THEN "absent"
  ELSE IF S.sessions[ref].oid = 0 THEN "absent" ELSE "found"

Found(S, ref) == Lookup(S, ref) = "found"

(* getSession for a session that the store holds *)
getSession(S, ref, config) ==
  LET copiedSession == structuredClone(S.sessions[ref])
      recent == IF config.numRecentEvents # 0
                THEN SliceLast(copiedSession.events, config.numRecentEvents)
                ELSE copiedSession.events
      after == IF config.afterTimestamp # 0
               THEN AfterTimestamp(recent, config.afterTimestamp)
               ELSE recent
  IN mergeState(S, ref.appName, ref.userId, [copiedSession EXCEPT !.events = after])

(* BaseSessionService.appendEvent: the event is pushed and the keys of its *)
(* stateDelta that have no scope are written to the state of the session   *)
BaseAppendEvent(session, event) ==
  [session EXCEPT
     !.events = Append(@, event),
     !.state = [key \in StateKeys |->
                  IF /\ key \in KeysOf(event.stateDelta)
                     /\ ~startsWith(key, APP_PREFIX)
                     /\ ~startsWith(key, USER_PREFIX)
                  THEN event.stateDelta[key]
                  ELSE @[key]]]

(* the loop over event.actions.stateDelta of appendEvent *)
ScopedDelta(scoped, delta, prefix) ==
  [key \in StateKeys |->
     IF \E d \in KeysOf(delta) : startsWith(d, prefix) /\ replace(d, prefix) = key
     THEN delta[CHOOSE d \in KeysOf(delta) :
                   startsWith(d, prefix) /\ replace(d, prefix) = key]
     ELSE scoped[key]]

(* appendEvent from the check of this.sessions to the second await, for a  *)
(* session that the store holds                                            *)
appendEvent(S, ref, event) ==
  [S EXCEPT
     !.appState[ref.appName] = ScopedDelta(@, event.stateDelta, APP_PREFIX),
     !.userState[<<ref.appName, ref.userId>>] =
        ScopedDelta(@, event.stateDelta, USER_PREFIX),
     !.sessions[ref] = BaseAppendEvent(@, event)]

(* listSessions: the sessions of the user without state and events *)
listSessions(S, appName, userId) ==
  {[id |-> ref.id, appName |-> ref.appName, userId |-> ref.userId,
    state |-> EmptyState, events |-> <<>>,
    lastUpdateTime |-> S.sessions[ref].lastUpdateTime] :
     ref \in {r \in SessionRefs : /\ r.appName = appName /\ r.userId = userId
                                 /\ <<appName, userId>> \in S.users
                                 /\ S.sessions[r].oid # 0}}

Result(op, ref, found, value, event) ==
  [op |-> op, session |-> ref, found |-> found, value |-> value, event |-> event,
   listed |-> {}, threw |-> FALSE]

Rejected(op, ref) ==
  [Result(op, ref, FALSE, NoStored, NoStoreEvent) EXCEPT !.threw = TRUE]

AllIdle == \A t \in Tasks : tasks[t].pc = "idle"

InitialKeys == {{}, {<<"k">>, <<APP_PREFIX, "k">>}}
DeltaKeys == {{<<"k">>}, {<<APP_PREFIX, "k">>}, {<<USER_PREFIX, "k">>}, StateKeys}

CreateSession(ref, keys) ==
  /\ store.clock <= MaxClock
  /\ LET S == createSession(store, ref, StateOf(keys, store.clock))
         session == mergeState(S, ref.appName, ref.userId,
                               structuredClone(S.sessions[ref]))
     IN /\ store' = Handed(S, ref, session)
        /\ returned' = Result("createSession", ref, TRUE, session, NoStoreEvent)
  /\ UNCHANGED <<pmVars, dVars, eaVars, raVars, rnVars, tasks>>

GetSession(ref, config) ==
  /\ IF Found(store, ref)
     THEN /\ returned' = Result("getSession", ref, TRUE, getSession(store, ref, config),
                                NoStoreEvent)
          /\ store' = Handed(store, ref, getSession(store, ref, config))
     ELSE /\ returned' = IF Lookup(store, ref) = "TypeError"
                          THEN Rejected("getSession", ref)
                          ELSE Result("getSession", ref, FALSE, NoStored, NoStoreEvent)
          /\ UNCHANGED store
  /\ UNCHANGED <<pmVars, dVars, eaVars, raVars, rnVars, tasks>>

ListSessions(appName, userId) ==
  /\ returned' = [Result("listSessions", SessionRef(appName, userId, ""), TRUE, NoStored,
                         NoStoreEvent)
                    EXCEPT !.listed = listSessions(store, appName, userId)]
  /\ UNCHANGED <<pmVars, dVars, eaVars, raVars, rnVars, store, tasks>>

(* the caller writes to the session object that createSession or           *)
(* getSession gave it: session.state['k'] = value, or session.events.push  *)
ChangeKinds == {"state", "events"}
CallerChanges(kind) ==
  /\ returned.op \in {"createSession", "getSession"}
  /\ returned.found
  /\ LET session ==
           IF kind = "state"
           THEN [returned.value EXCEPT !.state[<<"k">>] = store.clock]
           ELSE [returned.value EXCEPT
                   !.events = Append(@, [timestamp |-> store.clock,
                                         stateDelta |-> EmptyState])]
     IN /\ returned' = [returned EXCEPT !.op = "changed", !.value = session]
        /\ store' = Handed(store, returned.session, session)
  /\ UNCHANGED <<pmVars, dVars, eaVars, raVars, rnVars, tasks>>

(* deleteSession up to its await of getSession *)
DeleteSession(t, ref) ==
  /\ tasks[t].pc = "idle"
  /\ tasks' = [tasks EXCEPT ![t] =
                 [IdleTask EXCEPT !.pc = IF Lookup(store, ref) = "TypeError"
                                         THEN "awaitThrow" ELSE "awaitGet",
                                  !.session = ref, !.found = Found(store, ref)]]
  /\ store' = IF Found(store, ref)
              THEN Handed(store, ref, getSession(store, ref, NoConfig))
              ELSE store
  /\ returned' = NoResult
  /\ UNCHANGED <<pmVars, dVars, eaVars, raVars, rnVars>>

(* deleteSession after its await *)
DeleteSessionResumes(t) ==
  /\ tasks[t].pc \in {"awaitGet", "awaitThrow"}
  /\ store' = IF tasks[t].found
              THEN [store EXCEPT !.sessions[tasks[t].session] = NoStored]
              ELSE store
  /\ tasks' = [tasks EXCEPT ![t] = IdleTask]
  /\ returned' = IF tasks[t].pc = "awaitThrow"
                 THEN Rejected("deleteSession", tasks[t].session)
                 ELSE Result("deleteSession", tasks[t].session, tasks[t].found, NoStored,
                             NoStoreEvent)
  /\ UNCHANGED <<pmVars, dVars, eaVars, raVars, rnVars>>

(* appendEvent up to its first await: the event is appended to the session *)
(* object of the caller, which the store does not hold                     *)
AppendEvent(t, ref, keys) ==
  /\ tasks[t].pc = "idle"
  /\ store.clock <= MaxClock
  /\ tasks' = [tasks EXCEPT ![t] =
                 [IdleTask EXCEPT !.pc = "awaitBase", !.session = ref,
                                  !.event = [timestamp |-> store.clock,
                                             stateDelta |-> StateOf(keys, store.clock)]]]
  /\ store' = [store EXCEPT !.clock = @ + 1]
  /\ returned' = NoResult
  /\ UNCHANGED <<pmVars, dVars, eaVars, raVars, rnVars>>

(* appendEvent between its two awaits *)
AppendEventStores(t) ==
  /\ tasks[t].pc = "awaitBase"
  /\ IF Found(store, tasks[t].session)
     THEN /\ store' = appendEvent(store, tasks[t].session, tasks[t].event)
          /\ tasks' = [tasks EXCEPT ![t].pc = "awaitStorage",
                                    ![t].storage = store.sessions[tasks[t].session].oid]
          /\ returned' = NoResult
     ELSE /\ tasks' = [tasks EXCEPT ![t] = IdleTask]
          /\ returned' = Result("appendEvent", tasks[t].session, FALSE, NoStored,
                                tasks[t].event)
          /\ UNCHANGED store
  /\ UNCHANGED <<pmVars, dVars, eaVars, raVars, rnVars>>

(* faulty variant: the loop over the stateDelta runs once more after the   *)
(* second await                                                            *)
AppendEventReturnsWritesScoped(t) ==
  /\ tasks[t].pc = "awaitStorage"
  /\ store' = [store EXCEPT
                 !.appState[tasks[t].session.appName] =
                    ScopedDelta(@, tasks[t].event.stateDelta, APP_PREFIX),
                 !.userState[<<tasks[t].session.appName, tasks[t].session.userId>>] =
                    ScopedDelta(@, tasks[t].event.stateDelta, USER_PREFIX),
                 !.sessions[tasks[t].session].lastUpdateTime = tasks[t].event.timestamp]
  /\ tasks' = [tasks EXCEPT ![t] = IdleTask]
  /\ returned' = Result("appendEvent", tasks[t].session, TRUE, NoStored, tasks[t].event)
  /\ UNCHANGED <<pmVars, dVars, eaVars, raVars, rnVars>>

(* appendEvent after its second await: storageSession is the object that   *)
(* the store held before the await                                         *)
AppendEventReturns(t) ==
  /\ tasks[t].pc = "awaitStorage"
  /\ store' = IF store.sessions[tasks[t].session].oid = tasks[t].storage
              THEN [store EXCEPT !.sessions[tasks[t].session].lastUpdateTime =
                                    tasks[t].event.timestamp]
              ELSE store
  /\ tasks' = [tasks EXCEPT ![t] = IdleTask]
  /\ returned' = Result("appendEvent", tasks[t].session, TRUE, NoStored, tasks[t].event)
  /\ UNCHANGED <<pmVars, dVars, eaVars, raVars, rnVars>>

InitStore ==
  /\ plugins = <<>>
  /\ registered = 0
  /\ lastRegister = [outcome |-> "none", plugin |-> PluginA]
  /\ run = IdleRun
  /\ dispatch = IdleDispatch
  /\ call = NewCall
  /\ NoEventActions
  /\ NoResolution
  /\ NoTurn
  /\ NoStore

(* the calls of the session service one after the other *)
NextStore ==
  \/ AllIdle /\ \E ref \in SessionRefs, keys \in InitialKeys : CreateSession(ref, keys)
  \/ AllIdle /\ \E ref \in SessionRefs : GetSession(ref, NoConfig)
  \/ AllIdle /\ \E ref \in SessionRefs : DeleteSession("t1", ref)
  \/ DeleteSessionResumes("t1")
  \/ AllIdle /\ \E ref \in SessionRefs, keys \in DeltaKeys : AppendEvent("t1", ref, keys)
  \/ AppendEventStores("t1")
  \/ AppendEventReturns("t1")

SpecStore == InitStore /\ [][NextStore]_vars

(* one caller that lists the sessions of a user and writes to the session  *)
(* objects it was given, between calls that run one after the other        *)
CallerRefs == {SessionRef("app1", "u1", "s1"), SessionRef("app1", "u1", "s2")}
CallerDeltaKeys == {{<<"k">>}, {<<APP_PREFIX, "k">>, <<USER_PREFIX, "k">>}}

NextCaller ==
  \/ AllIdle /\ \E ref \in CallerRefs, keys \in InitialKeys : CreateSession(ref, keys)
  \/ AllIdle /\ \E ref \in SessionRefs, config \in Configs : GetSession(ref, config)
  \/ AllIdle /\ ListSessions("app1", "u1")
  \/ AllIdle /\ \E kind \in ChangeKinds : CallerChanges(kind)
  \/ AllIdle /\ \E ref \in CallerRefs : DeleteSession("t1", ref)
  \/ DeleteSessionResumes("t1")
  \/ AllIdle /\ \E ref \in CallerRefs, keys \in CallerDeltaKeys : AppendEvent("t1", ref, keys)
  \/ AppendEventStores("t1")
  \/ AppendEventReturns("t1")

SpecCaller == InitStore /\ [][NextCaller]_vars

(* two tasks that call appendEvent for sessions created before: a call     *)
(* begins, and resumes after an await, whatever the other task is in       *)
NextInterleave ==
  \/ AllIdle /\ \E ref \in CallerRefs :
                   ~Found(store, ref) /\ CreateSession(ref, {})
  \/ \E t \in Tasks, ref \in CallerRefs, keys \in DeltaKeys : AppendEvent(t, ref, keys)
  \/ \E t \in Tasks : AppendEventStores(t)
  \/ \E t \in Tasks : AppendEventReturns(t)

SpecInterleave == InitStore /\ [][NextInterleave]_vars

(***************************************************************************)
(* Properties of the plugin manager (checked under SpecPM)                 *)
(***************************************************************************)
OneTo(n) == [k \in 1..n |-> k]
DefinedReturn(o) == o.type = "return" /\ o.value # Undefined

(* C1: in every hook run, once the callback of plugin k has returned a     *)
(* value other than undefined, the run has returned exactly that value and *)
(* no callback of a plugin after k has been invoked for the run.           *)
C1_ShortCircuit ==
  \A j \in 1..Len(run.completed) :
     DefinedReturn(run.completed[j]) =>
        /\ run.pc = "returned"
        /\ run.result = run.completed[j].value
        /\ j = Len(run.completed)
        /\ Len(run.invoked) = j
        /\ \A m \in 1..Len(run.invoked) : run.invoked[m] <= run.invoked[j]
        /\ \A m \in 1..(j - 1) : run.completed[m] = Return(Undefined)

C1_Witness ==
  /\ run.pc = "returned"
  /\ run.result = Obj("P")
  /\ Len(plugins) = 3
  /\ run.invoked = <<1, 2>>
  /\ run.completed = <<Return(Undefined), Return(Obj("P"))>>

(* C2: in every hook run the callbacks are invoked in registration order,  *)
(* one at a time: at most one callback is in progress, and the callback of *)
(* plugin i+1 is started only after that of plugin i returned undefined.   *)
C2_InOrderOneAtATime ==
  /\ run.invoked = OneTo(Len(run.invoked))
  /\ Cardinality(run.active) <= 1
  /\ Len(run.completed) >= Len(run.invoked) - 1
  /\ \A m \in 2..Len(run.invoked) : run.completed[m - 1] = Return(Undefined)
  /\ run.pc = "inCallback" <=> run.active # {}
  /\ run.pc = "inCallback" => run.active = {run.invoked[Len(run.invoked)]}

C2_Witness ==
  /\ run.pc = "inCallback"
  /\ run.invoked = <<1, 2, 3>>
  /\ run.active = {3}
  /\ run.completed = <<Return(Undefined), Return(Undefined)>>

(* C3: when a plugin callback throws, the run fails with a new error whose *)
(* message names the plugin and the hook and whose cause is the thrown     *)
(* error (a thrown value that is no Error is first made one); the failing  *)
(* callback was invoked once, no later plugin is invoked, and the run does *)
(* not complete normally.                                                  *)
C3_ThrowAborts ==
  /\ \A j \in 1..Len(run.completed) :
        run.completed[j].type = "throw" =>
           LET e == run.completed[j].thrown
               p == plugins[run.invoked[j]]
           IN /\ run.pc = "threw"
              /\ j = Len(run.completed)
              /\ Len(run.invoked) = j
              /\ Cardinality({m \in 1..Len(run.invoked) : run.invoked[m] = run.invoked[j]}) = 1
              /\ run.result = Undefined
              /\ run.error.cause = ToError(e)
              /\ e.kind = "Error" => run.error.cause = e
              /\ run.error.message # run.error.cause.message
              /\ \E a, b \in 1..Len(run.error.message) :
                    /\ a < b
                    /\ run.error.message[a] = p.name
                    /\ run.error.message[b] = run.hook
              /\ run.error.message =
                    PluginErrorMessage(p.name, run.hook, run.error.cause)
  /\ run.pc = "threw" =>
        /\ run.completed # <<>>
        /\ run.completed[Len(run.completed)].type = "throw"

C3_Witness ==
  /\ run.pc = "threw"
  /\ Len(plugins) = 3
  /\ run.invoked = <<1, 2>>
  /\ run.completed = <<Return(Undefined), Throw(ErrBoom)>>
  /\ run.error.cause = ErrBoom

(* C4: a hook run in which no plugin returns a defined value returns       *)
(* undefined, and at that moment the callback of every registered plugin   *)
(* has been invoked exactly once (no plugin at all included).              *)
C4_ReturnsUndefined ==
  [][/\ (run.pc # "returned" /\ run'.pc = "returned" /\ run'.result = Undefined) =>
           /\ run'.invoked = OneTo(Len(plugins'))
           /\ run'.completed = [k \in 1..Len(plugins') |-> Return(Undefined)]
     /\ (/\ run.pc = "inCallback" /\ run'.pc # "idle"
         /\ Len(run'.completed) = Len(plugins')
         /\ \A k \in 1..Len(run'.completed) : run'.completed[k] = Return(Undefined)) =>
           /\ run'.pc = "returned"
           /\ run'.result = Undefined
     /\ (run.pc = "idle" /\ run'.pc # "idle" /\ plugins = <<>>) =>
           /\ run'.pc = "returned"
           /\ run'.result = Undefined
           /\ run'.invoked = <<>>]_vars

C4_Witness ==
  /\ run.pc = "returned"
  /\ run.result = Undefined
  /\ Len(plugins) = 3
  /\ \E k \in 1..3 : plugins[k].impl = "base"
  /\ \E k \in 1..3 : plugins[k].impl = "custom"
  /\ run.invoked = <<1, 2, 3>>
  /\ Len(run.completed) = 3

(* C5: registerPlugin with a registered name fails and leaves the registry *)
(* unchanged; with a new name it appends the plugin; registered names are  *)
(* pairwise distinct and getPluginCount is the number of successful        *)
(* registrations.                                                          *)
C5_UniqueNames ==
  /\ [](/\ \A i, j \in 1..Len(plugins) : plugins[i].name = plugins[j].name => i = j
        /\ getPluginCount = registered)
  /\ [][/\ (lastRegister' # lastRegister /\ lastRegister'.outcome = "threw") =>
              /\ NameTaken(plugins, lastRegister'.plugin)
              /\ plugins' = plugins
              /\ registered' = registered
        /\ (lastRegister' # lastRegister /\ lastRegister'.outcome = "ok") =>
              /\ ~NameTaken(plugins, lastRegister'.plugin)
              /\ plugins' = Append(plugins, lastRegister'.plugin)
              /\ registered' = registered + 1
        /\ plugins' # plugins =>
              /\ lastRegister'.outcome = "ok"
              /\ plugins' = Append(plugins, lastRegister'.plugin)]_vars

C5_Witness ==
  /\ lastRegister = [outcome |-> "threw", plugin |-> PluginA2]
  /\ plugins = <<PluginB, PluginA>>
  /\ registered = 2

(***************************************************************************)
(* Properties of the dispatcher (checked under SpecDispatch).  The stages  *)
(* asked for the call at hand are call.asked; the answer to asked[k] is    *)
(* call.answers[k].                                                        *)
(***************************************************************************)
Stage(k) == call.asked[k].stage
Answered(k) == k <= Len(call.answers)
AskedAt(stage) == {k \in 1..Len(call.asked) : Stage(k) = stage}
Calls == dispatch.functionCallsToExecute
Events == [k \in 1..Len(dispatch.functionResponseEvents) |->
             dispatch.functionResponseEvents[k].parts[1]]
PlainBatch == \A k \in 1..Len(Calls) : Calls[k].name = "t"

(* the response object a part carries for a final response v *)
PartResponse(v) == IF v.kind \in {"object", "array"} THEN v ELSE ResultObj(v)

(* C6: a tool that throws never aborts the batch.  The dispatcher never    *)
(* fails because of a tool; when it is done with a batch of n calls to     *)
(* plain tools, it returns one event with exactly n parts, part k for call *)
(* k; a call whose tool threw has the synthesized error response and a     *)
(* call whose tool returned has the tool's result, unless a hook or a      *)
(* callback replaced it.                                                   *)
C6_ToolFailureContained ==
  /\ dispatch.pc = "threw" =>
        /\ dispatch.thrown.source \in {"plugin", "agentCallback", "toolsDict"}
        /\ call.asked # <<>> => Stage(Len(call.asked)) # "tool"
  /\ (dispatch.pc = "done" /\ PlainBatch /\ Calls # <<>>) =>
        /\ ~dispatch.returned.isNull
        /\ Len(dispatch.returned.parts) = Len(Calls)
        /\ \A k \in 1..Len(Calls) :
              /\ dispatch.returned.parts[k].id = Calls[k].id
              /\ dispatch.returned.parts[k].name = Calls[k].name
  /\ (dispatch.pc = "next" /\ call.tool = "t") =>
        /\ call.emitted
        /\ PlainBatch => Len(Events) = dispatch.i
        /\ \A k \in AskedAt("tool") :
              /\ Answered(k)
              /\ call.answers[k].type = "throw" =>
                    /\ Answered(k + 1)
                    /\ call.answers[k + 1] = Return(Undefined) =>
                          call.produced =
                             ErrorObj(ToolErrorMessage(ToError(call.answers[k].thrown)))
              /\ call.answers[k].type = "return" =>
                    call.produced = call.answers[k].value
        /\ call.alteredFunctionResponse = Undefined =>
              Events[Len(Events)].response = PartResponse(call.produced)

C6_Witness ==
  /\ dispatch.pc = "done"
  /\ Len(Calls) = MaxBatch
  /\ PlainBatch
  /\ Len(dispatch.returned.parts) = MaxBatch
  /\ dispatch.returned.parts[1].response = ErrorObj(ToolErrorMessage(ErrBoom))
  /\ dispatch.returned.parts[MaxBatch].response = Obj("T")

(* C7 as stated: the synthesized response is {error: message} with the     *)
(* message of the thrown error.                                            *)
C7_ErrorIsBareMessage ==
  \A k \in AskedAt("onToolError") :
     (Answered(k) /\ call.answers[k] = Return(Undefined)) =>
        call.produced = ErrorObj(call.err.message)

(* C7 amended: when a tool throws, onToolError is asked exactly once, with *)
(* the thrown error; a defined answer is the call's response, otherwise    *)
(* the response is {error: "Tool execution failed: " + message}.           *)
(* onToolError is asked for no call whose tool did not throw or did not    *)
(* run.                                                                    *)
C7_ToolErrorHook ==
  /\ Cardinality(AskedAt("onToolError")) <= 1
  /\ \A k \in AskedAt("onToolError") :
        /\ k > 1
        /\ Stage(k - 1) = "tool"
        /\ call.answers[k - 1].type = "throw"
        /\ call.err = ToError(call.answers[k - 1].thrown)
        /\ Answered(k) =>
              call.produced =
                 IF call.answers[k].value # Undefined THEN call.answers[k].value
                 ELSE ErrorObj(<<"Tool execution failed: ">> \o call.err.message)
  /\ \A k \in AskedAt("tool") :
        (Answered(k) /\ call.answers[k].type = "throw") =>
           /\ Len(call.asked) > k
           /\ Stage(k + 1) = "onToolError"

C7_Witness ==
  /\ dispatch.pc = "afterTool"
  /\ AskedAt("onToolError") # {}
  /\ call.err = ErrBoom
  /\ call.answers[Len(call.answers)] = Return(Undefined)
  /\ call.produced = ErrorObj(<<"Tool execution failed: ", "boom">>)

(* C8: the stages before the response are asked in the order beforeTool,   *)
(* agent-level before-tool callbacks in list order, tool; each is asked    *)
(* only when all earlier ones answered undefined, and the first defined    *)
(* answer is the response.                                                 *)
C8_BeforeStageOrder ==
  /\ call.asked # <<>> => call.asked[1] = [stage |-> "beforeTool", idx |-> 0]
  /\ AskedAt("beforeTool") \subseteq {1}
  /\ Cardinality(AskedAt("tool")) <= 1
  /\ \A k \in AskedAt("agentBefore") :
        /\ call.asked[k].idx = k - 1
        /\ k - 1 <= dispatch.beforeToolCallbacks
        /\ \A m \in 1..(k - 1) : call.answers[m] = Return(Undefined)
  /\ \A k \in AskedAt("tool") :
        /\ k = dispatch.beforeToolCallbacks + 2
        /\ \A m \in 1..(k - 1) :
              /\ Stage(m) \in {"beforeTool", "agentBefore"}
              /\ call.answers[m] = Return(Undefined)
  /\ \A k \in AskedAt("beforeTool") \cup AskedAt("agentBefore") :
        (Answered(k) /\ DefinedReturn(call.answers[k])) =>
           /\ \A m \in (k + 1)..Len(call.asked) :
                 Stage(m) \notin {"beforeTool", "agentBefore", "tool", "onToolError"}
           /\ call.produced = call.answers[k].value
  /\ \A k \in AskedAt("tool") :
        (Answered(k) /\ call.answers[k].type = "return") =>
           call.produced = call.answers[k].value

C8_Witness ==
  /\ dispatch.pc = "afterTool"
  /\ dispatch.beforeToolCallbacks = 2
  /\ plugins # <<>>
  /\ call.answers = <<Return(Undefined), Return(Obj("A"))>>
  /\ Stage(2) = "agentBefore"
  /\ AskedAt("tool") = {}
  /\ call.produced = Obj("A")

(* C9: when a call is finished, its final response is the defined answer   *)
(* of the afterTool hook (no agent-level after-tool callback asked), else  *)
(* the first defined answer of the agent-level after-tool callbacks in     *)
(* list order (none asked after it), else the response of the before/tool/ *)
(* error stage; the afterTool hook was asked exactly once for the call.    *)
C9_AfterStage ==
  dispatch.pc = "next" =>
     /\ Cardinality(AskedAt("afterTool")) = 1
     /\ \A k \in AskedAt("afterTool") :
           LET last == Len(call.asked)
           IN /\ Len(call.answers) = last
              /\ \A m \in (k + 1)..last :
                    /\ call.asked[m] = [stage |-> "agentAfter", idx |-> m - k]
                    /\ call.answers[m - 1] = Return(Undefined)
              /\ DefinedReturn(call.answers[k]) => last = k
              /\ DefinedReturn(call.answers[last]) =>
                    call.functionResponse = call.answers[last].value
              /\ ~DefinedReturn(call.answers[last]) =>
                    /\ last - k = dispatch.afterToolCallbacks
                    /\ call.functionResponse = call.produced

C9_Witness ==
  /\ dispatch.pc = "next"
  /\ call.asked = <<[stage |-> "beforeTool", idx |-> 0], [stage |-> "afterTool", idx |-> 0],
                    [stage |-> "agentAfter", idx |-> 1], [stage |-> "agentAfter", idx |-> 2]>>
  /\ call.answers = <<Return(Obj("P")), Return(Undefined), Return(Undefined), Return(Obj("A"))>>
  /\ call.functionResponse = Obj("A")

(* C10: a finished call contributes no part exactly when its tool is long- *)
(* running and its final response is undefined or null, and otherwise      *)
(* exactly one part; the dispatcher returns no event exactly when no call  *)
(* contributed a part.                                                     *)
C10_LongRunningSkip ==
  /\ [](/\ dispatch.pc = "next" =>
              (call.emitted <=>
                 ~(toolsDict[call.tool].isLongRunning
                     /\ call.functionResponse \in {Undefined, Null}))
        /\ (dispatch.pc = "done" /\ Calls # <<>>) =>
              /\ dispatch.returned.isNull <=> Events = <<>>
              /\ ~dispatch.returned.isNull => dispatch.returned.parts = Events)
  /\ [][/\ (dispatch.pc # "next" /\ dispatch'.pc = "next") =>
              IF call'.emitted
              THEN /\ Len(dispatch'.functionResponseEvents) = Len(Events) + 1
                   /\ SubSeq(dispatch'.functionResponseEvents, 1, Len(Events)) =
                         dispatch.functionResponseEvents
                   /\ dispatch'.functionResponseEvents[Len(Events) + 1].parts =
                         <<[name |-> call'.tool, id |-> call'.functionCallId,
                            response |-> PartResponse(call'.functionResponse)]>>
              ELSE dispatch'.functionResponseEvents = dispatch.functionResponseEvents
        /\ (dispatch.pc # "idle" /\ dispatch'.pc # "next") =>
              dispatch'.functionResponseEvents = dispatch.functionResponseEvents]_vars

C10_Witness ==
  /\ dispatch.pc = "done"
  /\ Len(Calls) = 2
  /\ Calls[1].name = "t"
  /\ Events = <<[name |-> "t", id |-> IdAt(1), response |-> ResultObj(Undefined)]>>
  /\ call.tool = "lr"
  /\ call.functionResponse = Null
  /\ ~call.emitted

(* C11: dispatching leaves the originating function-call event as it was   *)
(* passed in: its function calls, their ids and its longRunningToolIds     *)
(* never change while the dispatcher works or after it ended, and the id   *)
(* of a long-running call that was skipped (no response part) is still     *)
(* listed in longRunningToolIds.                                           *)
C11_OriginatingEventUnchanged ==
  /\ [](dispatch.pc # "idle" =>
          /\ dispatch.functionCallEvent \in FunctionCallEvents
          /\ dispatch.functionCallEvent.longRunningToolIds =
                {dispatch.functionCallEvent.calls[k].id :
                   k \in {j \in 1..Len(dispatch.functionCallEvent.calls) :
                            /\ dispatch.functionCallEvent.calls[j].name = "lr"
                            /\ dispatch.functionCallEvent.calls[j].id # NoId}}
          /\ (dispatch.pc = "next" /\ ~call.emitted /\ call.functionCallId # NoId) =>
                call.functionCallId \in dispatch.functionCallEvent.longRunningToolIds)
  /\ [][dispatch.pc # "idle" =>
          dispatch'.functionCallEvent = dispatch.functionCallEvent]_vars

C11_Witness ==
  /\ dispatch.pc = "done"
  /\ dispatch.returned.isNull
  /\ Len(Calls) = 2
  /\ call.tool = "lr"
  /\ ~call.emitted
  /\ dispatch.functionCallEvent.longRunningToolIds = {IdAt(1), IdAt(2)}

(* C12: with an allow-list, the calls dispatched are exactly the calls of  *)
(* the originating event whose id is in the list, in order (a call without *)
(* id is never one of them); hooks, callbacks and the tool are asked only  *)
(* for such a call and every response part carries such an id; when no     *)
(* call is in the list the dispatcher returns no event, asks nothing and   *)
(* resolves no tool name (it does not throw for an unknown name).  Without *)
(* an allow-list every call is dispatched.                                 *)
C12_AllowList ==
  dispatch.pc # "idle" =>
    LET all == dispatch.functionCallEvent.calls
        ids == dispatch.filters.ids
        listed == {k \in 1..Len(all) : all[k].id # NoId /\ all[k].id \in ids}
    IN /\ ~dispatch.filters.given => Calls = all
       /\ dispatch.filters.given =>
            /\ Len(Calls) = Cardinality(listed)
            /\ \A k \in 1..Len(Calls) :
                  \E j \in listed : /\ Calls[k] = all[j]
                                    /\ Cardinality({m \in listed : m < j}) = k - 1
            /\ (call.asked # <<>> \/ call.tool # "") =>
                  call.functionCallId # NoId /\ call.functionCallId \in ids
            /\ \A k \in 1..Len(Events) : Events[k].id # NoId /\ Events[k].id \in ids
            /\ \A k \in 1..Len(dispatch.returned.parts) :
                  dispatch.returned.parts[k].id \in ids
            /\ listed = {} =>
                  /\ dispatch.pc = "done"
                  /\ dispatch.returned = NullEvent
                  /\ dispatch.thrown = NoThrow
                  /\ dispatch.i = 0
                  /\ call = NewCall
                  /\ run = IdleRun

C12_Witness ==
  /\ dispatch.pc = "done"
  /\ dispatch.filters = Filters({IdAt(1)})
  /\ dispatch.functionCallEvent.calls =
        <<[id |-> IdAt(1), name |-> "t"], [id |-> IdAt(2), name |-> "ghost"]>>
  /\ Len(dispatch.returned.parts) = 1
  /\ dispatch.returned.parts[1].id = IdAt(1)
  /\ call.asked # <<>>

(* C13: the response parts collected are one per responding call, in the   *)
(* order of the request, each with the id and the tool name of its call;   *)
(* when two or more calls responded the dispatcher returns one event with  *)
(* exactly these parts in this order; and the calls are handled one at a   *)
(* time: call i+1 is started only when call i has finished its after-tool  *)
(* stage.                                                                  *)
C13_OnePartPerCallInOrder ==
  /\ [](/\ \E idx \in [1..Len(Events) -> 1..dispatch.i] :
              /\ \A k \in 1..Len(Events) :
                    /\ Events[k].id = Calls[idx[k]].id
                    /\ Events[k].name = Calls[idx[k]].name
              /\ \A k \in 1..(Len(Events) - 1) : idx[k] < idx[k + 1]
        /\ \A k \in 1..Len(dispatch.functionResponseEvents) :
              Len(dispatch.functionResponseEvents[k].parts) = 1
        /\ (dispatch.pc = "done" /\ Len(Events) >= 2) =>
              /\ ~dispatch.returned.isNull
              /\ dispatch.returned.parts = Events
        /\ dispatch.pc = "next" =>
              \E k \in AskedAt("afterTool") : Answered(k))
  /\ [][dispatch'.i # dispatch.i =>
          /\ dispatch'.i = dispatch.i + 1
          /\ dispatch.pc \in {"idle", "next"}
          /\ dispatch.i > 0 => dispatch.pc = "next"]_vars

C13_Witness ==
  /\ dispatch.pc = "done"
  /\ Len(Calls) = 2
  /\ Len(dispatch.returned.parts) = 2
  /\ dispatch.returned.parts[1].id = IdAt(1)
  /\ dispatch.returned.parts[1].name = "t"
  /\ dispatch.returned.parts[2].id = IdAt(2)
  /\ dispatch.returned.parts[2].name = "lr"
  /\ dispatch.returned.parts[2].response = Obj("T")

(* C15: a call whose name is missing or names no tool of toolsDict is      *)
(* fatal: when the loop reaches it the dispatcher throws "Function <name>  *)
(* is not found in the toolsDict." and returns no event, not even for the  *)
(* calls that completed before it; nothing is asked for the call, no       *)
(* response part (no {error: ...}) is made for it, and no later call is    *)
(* dispatched.                                                             *)
C15_UnknownToolFatal ==
  /\ [](/\ \A k \in 1..(dispatch.i - 1) : Calls[k].name \in {"t", "lr"}
        /\ (dispatch.i > 0 /\ Calls[dispatch.i].name \notin {"t", "lr"}) =>
              /\ dispatch.pc = "threw"
              /\ dispatch.thrown =
                    [source |-> "toolsDict",
                     message |-> <<"Function ",
                                   IF Calls[dispatch.i].name = "" THEN "undefined"
                                   ELSE Calls[dispatch.i].name,
                                   " is not found in the toolsDict.">>]
              /\ dispatch.returned = NullEvent
              /\ run = IdleRun
              /\ Len(Events) <= dispatch.i - 1
        /\ \A k \in 1..Len(Events) : Events[k].name \in {"t", "lr"})
  /\ [][dispatch.pc = "threw" => (dispatch' = dispatch /\ call' = call /\ run' = run)]_vars

C15_Witness ==
  /\ dispatch.pc = "threw"
  /\ dispatch.thrown.source = "toolsDict"
  /\ dispatch.i = 2
  /\ Len(Calls) = 2
  /\ Calls[2].name = "ghost"
  /\ Len(Events) = 1
  /\ dispatch.returned = NullEvent

(***************************************************************************)
(* Properties of the actions of the returned event (checked under          *)
(* SpecActions)                                                            *)
(***************************************************************************)
ResponseEvents == dispatch.functionResponseEvents

(* the response events whose actions have an entry for key of field f (a   *)
(* scalar is the key "" of its field)                                      *)
EventsWith(f, key) ==
  {k \in 1..Len(ResponseEvents) : Has(ResponseEvents[k].actions, f, key)}

(* C14: each response event carries the actions of its call's ToolContext; *)
(* when two or more calls responded, the actions of the returned event are *)
(* those events' actions merged in request order: each mapping field is    *)
(* the union of the calls' maps with the latest call winning per key, each *)
(* scalar is that of the latest call that set it; when exactly one call    *)
(* responded the returned event is that call's event, with its actions.    *)
C14_MergedActions ==
  /\ (dispatch.pc = "next" /\ call.emitted) =>
        ResponseEvents[Len(ResponseEvents)].actions = call.actions
  /\ (dispatch.pc = "done" /\ Len(ResponseEvents) = 1) =>
        dispatch.returned = ResponseEvents[1]
  /\ (dispatch.pc = "done" /\ Len(ResponseEvents) >= 2) =>
        /\ dispatch.returned.actions.given
        /\ dispatch.returned.actions.maps = MapFieldSet
        /\ dispatch.returned.actions.undef = {}
        /\ dispatch.returned.actions.entries =
              {e \in UNION {ResponseEvents[k].actions.entries :
                              k \in 1..Len(ResponseEvents)} :
                 \E k \in EventsWith(e[1], e[2]) :
                    /\ \A j \in EventsWith(e[1], e[2]) : j <= k
                    /\ e \in ResponseEvents[k].actions.entries}

C14_Witness ==
  /\ dispatch.pc = "done"
  /\ Len(ResponseEvents) = 2
  /\ ResponseEvents[1].actions.entries =
        {<<"stateDelta", "a", 2>>, <<"stateDelta", "b", 3>>,
         <<"skipSummarization", "", True>>}
  /\ ResponseEvents[2].actions.entries = {<<"stateDelta", "a", 1>>}
  /\ dispatch.returned.actions.entries =
        {<<"stateDelta", "a", 1>>, <<"stateDelta", "b", 3>>,
         <<"skipSummarization", "", True>>}

(***************************************************************************)
(* Properties of createEventActions and mergeEventActions (checked under   *)
(* SpecMerge)                                                              *)
(***************************************************************************)
Last(S) == CHOOSE k \in S : \A j \in S : j <= k

(* the sources that have key in their mapping field f *)
SourcesWithKey(f, key) ==
  {k \in 1..Len(sources) :
     /\ sources[k] # NoObject
     /\ IsRef(sources[k][f])
     /\ At(heap, sources[k][f])[key] # NoEntry}

(* the sources that give scalar f a value other than undefined *)
SourcesWithScalar(f) ==
  {k \in 1..Len(sources) : sources[k] # NoObject /\ Get(sources[k], f) # Undefined}

(* C16: in the object mergeEventActions returns, each of the four mapping  *)
(* fields is a container whose keys are those of the target's map and of   *)
(* all sources' maps, and the value of a key is that of the last source    *)
(* that has the key (the target's when no source has it).                  *)
C16_MapsUnion ==
  merged # NoObject =>
    \A f \in MapFieldSet :
       /\ IsRef(merged[f])
       /\ \A key \in Keys :
             At(heap, merged[f])[key] =
               IF SourcesWithKey(f, key) # {}
               THEN At(heap, sources[Last(SourcesWithKey(f, key))][f])[key]
               ELSE IF target # NoObject THEN At(heap, target[f])[key]
               ELSE NoEntry

C16_Witness ==
  /\ merged # NoObject
  /\ target # NoObject
  /\ Len(sources) = 2
  /\ IsRef(sources[1]["stateDelta"])
  /\ IsRef(sources[2]["stateDelta"])
  /\ At(heap, sources[1]["stateDelta"]) = [a |-> 1, b |-> 0]
  /\ At(heap, sources[2]["stateDelta"]) = [a |-> 2, b |-> 3]
  /\ At(heap, merged["stateDelta"]) = [a |-> 2, b |-> 3]
  /\ At(heap, merged["artifactDelta"]) = [a |-> 2, b |-> 2]

(* C17: in the object mergeEventActions returns, skipSummarization,        *)
(* transferToAgent and escalate each have the value of the last source     *)
(* that gives it a value other than undefined (false counts as a value; a  *)
(* later source that leaves it undefined erases nothing); when no source   *)
(* gives one it is the target's value, or unset.                           *)
C17_ScalarsLastDefined ==
  merged # NoObject =>
    \A f \in ScalarFields :
       Get(merged, f) =
         IF SourcesWithScalar(f) # {} THEN sources[Last(SourcesWithScalar(f))][f]
         ELSE IF target # NoObject THEN Get(target, f)
         ELSE Undefined

C17_Witness ==
  /\ merged # NoObject
  /\ target # NoObject
  /\ Get(target, "escalate") = True
  /\ Len(sources) = 2
  /\ sources[1]["skipSummarization"] = True
  /\ sources[2]["skipSummarization"] = Undefined
  /\ sources[2]["escalate"] = False
  /\ merged["skipSummarization"] = True
  /\ merged["escalate"] = False
  /\ Get(merged, "transferToAgent") = Undefined

(* C18: mergeEventActions does not touch its target: the call leaves the   *)
(* target's mapping fields (their entries) and scalars as they were, and   *)
(* the object it returns shares no mapping container with the target.      *)
C18_TargetUntouched ==
  /\ [][(merged = NoObject /\ merged' # NoObject /\ target # NoObject) =>
          View(heap', target) = View(heap, target)]_vars
  /\ []((merged # NoObject /\ target # NoObject) =>
          \A f \in MapFieldSet, g \in MapFieldSet : merged[f] # target[g])

(* C19: what createEventActions returns has its four mapping fields        *)
(* defined as containers, whatever the partial given (a mapping field      *)
(* named with the value undefined included), a field the partial gives no  *)
(* container for is an empty one, and the objects of two calls share no    *)
(* container.                                                              *)
C19_CreatedHasContainers ==
  /\ \A i \in 1..Len(created) :
        \A f \in MapFieldSet :
           /\ IsRef(created[i].obj[f])
           /\ (created[i].state = NoObject \/ ~IsRef(created[i].state[f])) =>
                 At(heap, created[i].obj[f]) = EmptyMap
  /\ \A i \in 1..Len(created), j \in 1..Len(created) :
        i # j => \A f \in MapFieldSet, g \in MapFieldSet :
                    created[i].obj[f] # created[j].obj[g]

(***************************************************************************)
(* Properties of agent resolution (checked under SpecResolve)              *)
(***************************************************************************)
(* C20: function-response correlation has priority: when the history holds *)
(* a function call with id f authored by an agent A of the tree and the    *)
(* new message carries a function response with id f, the agent resolved   *)
(* is A, whatever events follow the call in the history.                   *)
C20_CorrelationFirst ==
  agent # NoAgent =>
    \A k \in 1..Len(history) :
       (/\ newMessage.functionResponse # NoId
        /\ history[k].functionCall = newMessage.functionResponse
        /\ history[k].author \in {RootAgent} \cup SubAgents) =>
          agent = history[k].author

C20_Witness ==
  /\ history = <<CallEvent("sub_agent2", IdAt(2)), TextEvent(RootAgent)>>
  /\ newMessage = [functionResponse |-> IdAt(2)]
  /\ agent = "sub_agent2"

(* rule 1 applies: the new message answers a function call of the history *)
Correlated ==
  newMessage.functionResponse # NoId /\ CallsOf(history, newMessage.functionResponse) # {}

(* the events whose author the backward walk may select *)
Selectable ==
  {k \in 1..Len(history) :
     history[k].author \in {RootAgent} \cup (SubAgents \ DisallowTransferToParent)}

(* C21: when function-response correlation does not apply, the agent       *)
(* resolved is the author of the most recent event whose author is the     *)
(* root agent or a sub-agent of the tree that allows transfer to its       *)
(* parent (events of the user, of unknown names and of non-transferable    *)
(* agents are skipped), and the root agent when no event qualifies.        *)
C21_BackwardWalk ==
  (agent # NoAgent /\ ~Correlated) =>
     agent = IF Selectable = {} THEN RootAgent ELSE history[Last(Selectable)].author

C21_Witness ==
  /\ history = <<TextEvent("sub_agent1"), TextEvent("non_transferable"),
                 TextEvent("unknown_agent")>>
  /\ newMessage = [functionResponse |-> NoId]
  /\ agent = "sub_agent1"

Persisted == SubSeq(stored.events, turn.base + 2, Len(stored.events))

(* the event that is persisted and emitted for the k-th event of the agent *)
Outgoing(k) ==
  IF IsDefined(turn.intercepted[k]) THEN PluginEvent(turn.intercepted[k])
  ELSE turn.produced[k]

(* C23: persistence happens before emission: at every point of a turn the  *)
(* events the caller has received are the first events the session store   *)
(* received in the turn, in the same order, and the step that yields an    *)
(* event finds it in the stored session and leaves the session as it is.   *)
C23_PersistBeforeEmit ==
  /\ [](/\ Len(turn.emitted) <= Len(Persisted)
        /\ \A k \in 1..Len(turn.emitted) : turn.emitted[k] = Persisted[k])
  /\ [][Len(turn'.emitted) > Len(turn.emitted) =>
          /\ Len(Persisted) >= Len(turn'.emitted)
          /\ Persisted[Len(turn'.emitted)] = turn'.emitted[Len(turn'.emitted)]
          /\ stored' = stored]_vars

C23_Witness ==
  /\ turn.pc = "emit"
  /\ Len(turn.emitted) = 1
  /\ Len(Persisted) = 2
  /\ turn.emitted[1] = PluginEvent(Obj("P"))
  /\ Persisted[2] = RunnerEvent("sub_agent2", Reply(2))

(* C24: a turn that ends without a failure has run afterRun exactly once;  *)
(* afterRun is never run twice, it is run only when every event of the     *)
(* turn has been persisted and emitted, and once it is run no event is     *)
(* produced, persisted or emitted; a turn that beforeRun short-circuits    *)
(* never executes the agent, emits the canned response and runs afterRun.  *)
C24_AfterRunOnce ==
  /\ [](/\ turn.afterRuns <= 1
        /\ turn.pc = "done" => turn.afterRuns = 1
        /\ (run.caller = "runner" /\ run.hook = "afterRunCallback") => turn.afterRuns = 1
        /\ turn.afterRuns = 1 =>
              /\ turn.pc \in {"afterRun", "done", "failed"}
              /\ turn.pending = NoEvent
              /\ Len(turn.emitted) = Len(Persisted)
              /\ turn.shortCircuit \/ Len(turn.emitted) = Len(turn.produced)
        /\ turn.shortCircuit =>
              /\ ~turn.executed
              /\ turn.produced = <<>>
              /\ turn.pc = "done" => Len(turn.emitted) = 1)
  /\ [][turn.afterRuns = 1 =>
          /\ stored' = stored
          /\ turn'.emitted = turn.emitted
          /\ turn'.produced = turn.produced]_vars

C24_Witness ==
  /\ turn.pc = "done"
  /\ turn.shortCircuit
  /\ turn.afterRuns = 1
  /\ turn.emitted = <<RunnerEvent("model", Obj("P"))>>
  /\ plugins = <<PluginA, PluginC>>

(* C25: once the user's event of the turn is persisted, it carries the     *)
(* Content the onUserMessage hook returned, and no event of the turn       *)
(* carries the message the caller gave; when the hook returned undefined   *)
(* it carries the caller's message.  In a new session it is the first      *)
(* event.                                                                  *)
C25_UserMessageReplaced ==
  (turn.pc # "idle" /\ Len(stored.events) > turn.base) =>
     IF IsDefined(turn.userMessageResult)
     THEN /\ stored.events[turn.base + 1] =
               [author |-> User, functionCall |-> NoId, functionResponse |-> NoId,
                content |-> turn.userMessageResult]
          /\ \A k \in (turn.base + 1)..Len(stored.events) :
                stored.events[k].content # turn.given.content
     ELSE stored.events[turn.base + 1] = UserEvent(turn.given)

C25_Witness ==
  /\ turn.pc = "done"
  /\ turn.base = 0
  /\ turn.given.content = Obj("hello")
  /\ turn.userMessageResult = Obj("P")
  /\ stored.events[1].content = Obj("P")
  /\ Len(stored.events) = 3

(* C26: for the k-th event the agent produced, the event persisted and the *)
(* event emitted are the same one: the event onEvent returned if it        *)
(* returned one, the agent's event if it returned undefined; between two   *)
(* events of the agent, and at the end of the turn, as many events are     *)
(* persisted and emitted as onEvent answered for.                          *)
C26_OnEventReplaces ==
  turn.executed =>
    /\ Len(turn.intercepted) <= Len(turn.produced)
    /\ Len(Persisted) <= Len(turn.intercepted)
    /\ \A k \in 1..Len(turn.intercepted) :
          /\ k <= Len(Persisted) => Persisted[k] = Outgoing(k)
          /\ k <= Len(turn.emitted) => turn.emitted[k] = Outgoing(k)
    /\ turn.pc \in {"execute", "afterRun", "done"} =>
          /\ Len(turn.produced) = Len(turn.intercepted)
          /\ Len(Persisted) = Len(turn.produced)
          /\ Len(turn.emitted) = Len(turn.produced)

C26_Witness ==
  /\ turn.pc = "done"
  /\ Len(turn.produced) = 2
  /\ turn.intercepted = <<Undefined, Obj("P")>>
  /\ turn.emitted = <<RunnerEvent(RootAgent, Reply(1)), PluginEvent(Obj("P"))>>
  /\ Persisted = turn.emitted

(* C27: when a callback of a hook the Runner runs throws, no further       *)
(* plugin is asked for that hook, the hook run rejects, the next step of   *)
(* the Runner fails the turn with that error, leaving the session and the  *)
(* events emitted as they are, and a failed turn does nothing more.        *)
C27_PluginThrowFatal ==
  /\ []((/\ run.caller = "runner"
         /\ \E j \in 1..Len(run.completed) : run.completed[j].type = "throw") =>
          /\ run.pc = "threw"
          /\ run.completed[Len(run.completed)].type = "throw"
          /\ Len(run.invoked) = Len(run.completed)
          /\ turn.pc = "failed" => turn.error = run.error)
  /\ [][(run.caller = "runner" /\ run.pc = "threw") =>
          /\ turn'.pc = "failed"
          /\ stored' = stored
          /\ turn'.emitted = turn.emitted
          /\ turn'.produced = turn.produced
          /\ run' = run]_vars
  /\ [][turn.pc = "failed" => UNCHANGED <<turn, stored, run>>]_vars

C27_Witness ==
  /\ turn.pc = "failed"
  /\ plugins = <<PluginA, PluginC>>
  /\ run.hook = "onEventCallback"
  /\ run.invoked = <<1>>
  /\ Len(turn.produced) = 2
  /\ Len(turn.emitted) = 1
  /\ Len(Persisted) = 1

(***************************************************************************)
(* Properties of the session store (checked under SpecStore)               *)
(***************************************************************************)
ScopedKey(key) == startsWith(key, APP_PREFIX) \/ startsWith(key, USER_PREFIX)
StoredRefs == {ref \in SessionRefs : Found(store, ref)}
SameApp(a, b) == a.appName = b.appName
SameUser(a, b) == a.appName = b.appName /\ a.userId = b.userId

(* what getSession shows of a key to the session ref *)
Shown(ref, key) == getSession(store, ref, NoConfig).state[key]

(* an appendEvent for a session of the store has just returned *)
Appended == returned.op = "appendEvent" /\ returned.found

(* C28: when appendEvent has returned for an event whose stateDelta writes *)
(* a key, getSession shows the written value of an app: key in every       *)
(* session of that app whoever the user is, the written value of a user:   *)
(* key in the sessions of the same user in the same app and in no session  *)
(* of another user or another app, and the written value of a key without  *)
(* prefix in no other session.                                             *)
C28_StateScoping ==
  Appended =>
    \A key \in KeysOf(returned.event.stateDelta), ref \in StoredRefs :
       LET shows == Shown(ref, key) = returned.event.stateDelta[key]
       IN /\ startsWith(key, APP_PREFIX) /\ SameApp(ref, returned.session) => shows
          /\ startsWith(key, USER_PREFIX) => (shows <=> SameUser(ref, returned.session))
          /\ ~ScopedKey(key) /\ ref # returned.session => ~shows

C28_Witness ==
  /\ Appended
  /\ returned.session = SessionRef("app1", "u1", "s1")
  /\ KeysOf(returned.event.stateDelta) = StateKeys
  /\ Found(store, SessionRef("app1", "u2", "s1"))
  /\ Shown(SessionRef("app1", "u2", "s1"), <<APP_PREFIX, "k">>)
        = returned.event.stateDelta[<<APP_PREFIX, "k">>]
  /\ Shown(SessionRef("app1", "u2", "s1"), <<USER_PREFIX, "k">>) = NoEntry
  /\ Shown(SessionRef("app1", "u2", "s1"), <<"k">>) = NoEntry

(* the state of the session ref in the store, with the values that         *)
(* appState and userState hold for its app and its user written over it    *)
EffectiveState(ref) ==
  [key \in StateKeys |->
     IF /\ startsWith(key, APP_PREFIX)
        /\ store.appState[ref.appName][Tail(key)] # NoEntry
     THEN store.appState[ref.appName][Tail(key)]
     ELSE IF /\ startsWith(key, USER_PREFIX)
             /\ store.userState[<<ref.appName, ref.userId>>][Tail(key)] # NoEntry
          THEN store.userState[<<ref.appName, ref.userId>>][Tail(key)]
          ELSE store.sessions[ref].state[key]]

(* C29: after any sequence of createSession, appendEvent, getSession and   *)
(* deleteSession, the state that the store keeps for a session has no key  *)
(* with the prefix app: or user:, and the state that getSession returns is *)
(* that state overlaid with the values that the app and the user have at   *)
(* the time of the read.                                                   *)
C29_ScopedOnlyInScopedStores ==
  AllIdle =>
    \A ref \in StoredRefs :
       /\ \A key \in KeysOf(store.sessions[ref].state) : ~ScopedKey(key)
       /\ \A config \in Configs :
             getSession(store, ref, config).state = EffectiveState(ref)

AppendStores(t, ref) ==
  /\ tasks[t].pc = "awaitBase"
  /\ tasks[t].session = ref
  /\ Found(store, ref)
  /\ tasks'[t].pc = "awaitStorage"

AppendReturns(t, ref) ==
  /\ tasks[t].pc = "awaitStorage"
  /\ tasks[t].session = ref
  /\ tasks'[t].pc = "idle"

(* C30: appendEvent on a session of the store appends the event as the     *)
(* last element of the stored events and leaves the earlier ones as they   *)
(* were, sets the stored lastUpdateTime to the timestamp of the event,     *)
(* writes the scoped keys of the stateDelta to the state of the app and of *)
(* the user, and returns the event; and no step other than that of         *)
(* appendEvent changes the events of a session of the store.               *)
C30_AppendOnlyLog ==
  [][\A ref \in SessionRefs :
        /\ \A t \in Tasks :
              AppendStores(t, ref) =>
                 /\ store'.sessions[ref].events =
                       Append(store.sessions[ref].events, tasks[t].event)
                 /\ \A key \in KeysOf(tasks[t].event.stateDelta) :
                       /\ startsWith(key, APP_PREFIX) =>
                             store'.appState[ref.appName][Tail(key)] =
                                tasks[t].event.stateDelta[key]
                       /\ startsWith(key, USER_PREFIX) =>
                             store'.userState[<<ref.appName, ref.userId>>][Tail(key)] =
                                tasks[t].event.stateDelta[key]
        /\ \A t \in Tasks :
              AppendReturns(t, ref) =>
                 /\ store'.sessions[ref].lastUpdateTime = tasks[t].event.timestamp
                 /\ returned' = Result("appendEvent", ref, TRUE, NoStored, tasks[t].event)
        /\ (/\ Found(store, ref)
            /\ Found(store', ref)
            /\ store'.sessions[ref].events # store.sessions[ref].events)
              => \E t \in Tasks : AppendStores(t, ref)]_vars

Log(ref) == store.sessions[ref].events
NonDecreasing(events) ==
  \A i \in 1..Len(events), j \in 1..Len(events) :
     i < j => events[i].timestamp <= events[j].timestamp
LastOf(events, n) ==
  [k \in 1..(IF n < Len(events) THEN n ELSE Len(events)) |->
     events[Len(events) - (IF n < Len(events) THEN n ELSE Len(events)) + k]]

(* what getSession returns for the configs other than afterTimestamp, and  *)
(* that the read leaves the store as it was                                *)
ReadsRecent ==
  /\ [](\A ref \in StoredRefs, config \in Configs :
          /\ config = NoConfig => getSession(store, ref, config).events = Log(ref)
          /\ config.numRecentEvents >= 1 /\ config.afterTimestamp = 0 =>
                getSession(store, ref, config).events =
                   LastOf(Log(ref), config.numRecentEvents))
  /\ [][returned'.op = "getSession" => store' = store]_vars

(* C31 as stated: with afterTimestamp = t getSession returns exactly the   *)
(* events whose timestamp is after t, with numRecentEvents = N the last    *)
(* min(N, length) events, without config all events, and the read leaves   *)
(* the stored session as it was.                                           *)
C31_EventsAfterTimestamp ==
  /\ ReadsRecent
  /\ [](\A ref \in StoredRefs, config \in Configs :
          config.afterTimestamp # 0 /\ config.numRecentEvents = 0
             /\ NonDecreasing(Log(ref)) =>
                getSession(store, ref, config).events =
                   SelectSeq(Log(ref), LAMBDA e : e.timestamp > config.afterTimestamp))

(* C31, amended: with afterTimestamp = t getSession returns exactly the    *)
(* events whose timestamp is t or later (for a log with non-decreasing     *)
(* timestamps); with numRecentEvents = N the last min(N, length) events;   *)
(* without config all events; the read leaves the stored session as it     *)
(* was.                                                                    *)
C31_EventsFromTimestamp ==
  /\ ReadsRecent
  /\ [](\A ref \in StoredRefs, config \in Configs :
          config.afterTimestamp # 0 /\ config.numRecentEvents = 0
             /\ NonDecreasing(Log(ref)) =>
                getSession(store, ref, config).events =
                   SelectSeq(Log(ref), LAMBDA e : e.timestamp >= config.afterTimestamp))

C31_Witness ==
  /\ returned.op = "getSession"
  /\ returned.found
  /\ Len(Log(returned.session)) = 2
  /\ Log(returned.session)[1].timestamp = 2
  /\ returned.value.events = <<Log(returned.session)[2]>>
  /\ \E config \in Configs :
        /\ config.afterTimestamp = Log(returned.session)[2].timestamp
        /\ getSession(store, returned.session, config).events = returned.value.events

DeleteResumes(t, ref) ==
  /\ tasks[t].pc \in {"awaitGet", "awaitThrow"}
  /\ tasks[t].session = ref
  /\ tasks'[t].pc = "idle"

(* C32: no call of the service ends with an exception because a session is *)
(* absent: getSession of a session that the store does not hold, whatever  *)
(* of appName, userId and id is unknown, returns undefined; deleteSession  *)
(* of an absent session returns and leaves the store as it was; after      *)
(* deleteSession of a stored session, getSession of it finds nothing and   *)
(* listSessions does not list it, and what getSession and listSessions     *)
(* give for every other session is as before.                              *)
C32_AbsentIsNotAnError ==
  /\ [](/\ ~returned.threw
        /\ returned.op = "getSession" =>
              /\ returned.found <=> Found(store, returned.session)
              /\ ~returned.found => returned.value = NoStored)
  /\ [][\A t \in Tasks, ref \in SessionRefs :
          DeleteResumes(t, ref) =>
             /\ returned' = Result("deleteSession", ref, Found(store, ref), NoStored,
                                   NoStoreEvent)
             /\ ~Found(store, ref) => store' = store
             /\ Lookup(store', ref) = "absent"
             /\ \A listed \in listSessions(store', ref.appName, ref.userId) :
                   listed.id # ref.id
             /\ \A other \in SessionRefs \ {ref} :
                   /\ Found(store', other) <=> Found(store, other)
                   /\ Found(store, other) =>
                         getSession(store', other, NoConfig) =
                            getSession(store, other, NoConfig)
                   /\ {listed \in listSessions(store', other.appName, other.userId) :
                          listed.id = other.id}
                      = {listed \in listSessions(store, other.appName, other.userId) :
                            listed.id = other.id}]_vars

C32_Witness ==
  /\ returned.op = "deleteSession"
  /\ returned.found
  /\ returned.session = SessionRef("app1", "u1", "s1")
  /\ ~Found(store, returned.session)
  /\ Found(store, SessionRef("app1", "u1", "s2"))
  /\ listSessions(store, "app1", "u1") # {}

(* C40: when the caller writes to the state or the events of a session     *)
(* object that createSession or getSession returned, what getSession       *)
(* returns for any session stays as it was; and appendEvent for a session  *)
(* that the store does not hold leaves the stored sessions, the app state  *)
(* and the user state as they were and returns the event.                  *)
C40_IsolatedCopies ==
  [][/\ returned'.op = "changed" =>
          \A ref \in SessionRefs :
             /\ Found(store', ref) <=> Found(store, ref)
             /\ Found(store, ref) =>
                   \A config \in Configs :
                      getSession(store', ref, config) = getSession(store, ref, config)
     /\ \A t \in Tasks :
          (/\ tasks[t].pc = "awaitBase"
           /\ ~Found(store, tasks[t].session)
           /\ tasks'[t].pc # "awaitBase") =>
             /\ store'.sessions = store.sessions
             /\ store'.appState = store.appState
             /\ store'.userState = store.userState
             /\ tasks'[t].pc = "idle"
             /\ returned' = Result("appendEvent", tasks[t].session, FALSE, NoStored,
                                   tasks[t].event)]_vars

C40_Witness ==
  /\ returned.op = "changed"
  /\ Found(store, returned.session)
  /\ Len(Log(returned.session)) = 1
  /\ \/ Len(returned.value.events) = 2
     \/ returned.value.state[<<"k">>] = store.clock
  /\ getSession(store, returned.session, NoConfig) # returned.value

(***************************************************************************)
(* Properties of interleaved appendEvent calls (checked under              *)
(* SpecInterleave)                                                         *)
(***************************************************************************)
Once(event, events) == Cardinality({i \in 1..Len(events) : events[i] = event}) = 1

(* the places <<ref, i>> of the stored logs of the sessions in refs whose  *)
(* event writes key                                                        *)
Writers(refs, key) ==
  {w \in refs \X (1..MaxClock) :
     /\ w[2] <= Len(Log(w[1]))
     /\ key \in KeysOf(Log(w[1])[w[2]].stateDelta)}

(* scoped holds for key what applying the stateDeltas of the stored logs   *)
(* of refs in the order of the logs gives: the value of an event that no   *)
(* later event of its log overwrites                                       *)
InLogOrder(scoped, refs, key) ==
  IF Writers(refs, key) = {}
  THEN scoped[Tail(key)] = NoEntry
  ELSE \E w \in Writers(refs, key) :
          /\ scoped[Tail(key)] = Log(w[1])[w[2]].stateDelta[key]
          /\ \A v \in Writers(refs, key) : v[1] = w[1] => v[2] <= w[2]

C34_ResponseIsObject ==
  /\ \A k \in 1..Len(dispatch.functionResponseEvents) :
        \A j \in 1..Len(dispatch.functionResponseEvents[k].parts) :
           dispatch.functionResponseEvents[k].parts[j].response.kind = "object"
  /\ (/\ dispatch.pc = "next"
      /\ call.emitted
      /\ call.alteredFunctionResponse = Undefined)
        => dispatch.functionResponseEvents[Len(dispatch.functionResponseEvents)]
              .parts[1].response = call.normalizedResponseForCallback

(***************************************************************************)
(* Properties of callbacks that answer null, false, 0, '' or {} (checked   *)
(* under SpecFalsy)                                                        *)
(***************************************************************************)
FalsyAnswer(o) == o.type = "return" /\ o.value \in FalsyValues

(* C36: only undefined means "no opinion".  A plugin callback that returns *)
(* null, false, 0, '' or {} ends the hook run with that value and no later *)
(* plugin is invoked; in the dispatcher such an answer of beforeTool or of *)
(* an agent-level before-tool callback means that the tool is not called,  *)
(* and such an answer of an after-tool stage is the response of the call.  *)
C36_OnlyUndefinedIsNoOpinion ==
  /\ \A j \in 1..Len(run.completed) :
        FalsyAnswer(run.completed[j]) =>
           /\ run.pc = "returned"
           /\ run.result = run.completed[j].value
           /\ j = Len(run.completed)
           /\ Len(run.invoked) = j
  /\ \A k \in 1..Len(call.answers) :
        FalsyAnswer(call.answers[k]) =>
           /\ Stage(k) \in {"beforeTool", "agentBefore"} =>
                 /\ AskedAt("tool") = {}
                 /\ k < Len(call.asked) => Stage(k + 1) = "afterTool"
           /\ Stage(k) \in {"afterTool", "agentAfter"} =>
                 /\ k = Len(call.asked)
                 /\ dispatch.pc = "next" => call.functionResponse = call.answers[k].value

C36_Witness ==
  /\ dispatch.pc = "next"
  /\ Len(call.asked) = 2
  /\ Stage(1) = "beforeTool"
  /\ Stage(2) = "afterTool"
  /\ call.answers[1].value = Null
  /\ call.answers[2].value = [kind |-> "number", tag |-> "0", inner |-> <<>>]
  /\ call.functionResponse = call.answers[2].value


(***************************************************************************)
(* Properties of the identity of the returned event (checked under         *)
(* SpecDispatch)                                                           *)
(***************************************************************************)

C35_SourcesUntouched ==
  /\ [][(merged = NoObject /\ merged' # NoObject) =>
          \A k \in 1..Len(sources) : View(heap', sources[k]) = View(heap, sources[k])]_vars
  /\ [](merged # NoObject =>
          \A k \in 1..Len(sources) :
             sources[k] # NoObject =>
                \A f \in MapFieldSet, g \in MapFieldSet :
                   IsRef(sources[k][f]) => merged[g] # sources[k][f])

(***************************************************************************)
(* Properties of registration during a hook run (checked under SpecPM)     *)
(***************************************************************************)

(* C38: the set of plugins a hook run invokes is fixed when the run        *)
(* starts: a plugin registered while the run is suspended in a callback is *)
(* not invoked by that run.                                                *)
C38_PluginSetFixedAtStart ==
  \A k \in 1..Len(run.invoked) : run.invoked[k] <= run.atStart

(* C38 as amended: a hook run reads the plugins array as it is when a      *)
(* callback returns: after a callback returned undefined the run invokes   *)
(* the next plugin of the array as it then is, a plugin registered since   *)
(* the run started included, and it ends with undefined only when the      *)
(* array as it then is has no further plugin; a run started after a        *)
(* registration goes through the same array from its first plugin.         *)
C38_LivePluginList ==
  /\ [][(run.pc = "inCallback" /\ run' # run /\ run'.pc # "idle"
          /\ run'.completed = Append(run.completed, Return(Undefined))) =>
          IF run.idx < Len(plugins)
          THEN /\ run'.pc = "inCallback"
               /\ run'.invoked = Append(run.invoked, run.idx + 1)
          ELSE /\ run'.pc = "returned"
               /\ run'.result = Undefined
               /\ run'.invoked = run.invoked]_vars
  /\ [][(run.pc = "idle" /\ run'.pc # "idle") =>
          /\ run'.atStart = Len(plugins)
          /\ IF Len(plugins) > 0 THEN run'.invoked = <<1>> ELSE run'.invoked = <<>>]_vars
  /\ [](run.invoked = OneTo(Len(run.invoked)) /\ Len(run.invoked) <= Len(plugins))

(* a plugin registered while the run was suspended in the callback of the  *)
(* first plugin is invoked by that run                                     *)
C38_Witness ==
  /\ run.pc = "inCallback"
  /\ run.atStart = 1
  /\ Len(plugins) = 2
  /\ run.invoked = <<1, 2>>
  /\ run.completed = <<Return(Undefined)>>

(***************************************************************************)
(* Properties of generateAuthEvent (checked under SpecAuth)                *)
(***************************************************************************)
(* the entries of requestedAuthConfigs of the function-response event *)
Requested ==
  LET actions == authEvent.functionResponseEvent.actions
  IN IF actions = NoObject \/ ~IsRef(actions["requestedAuthConfigs"]) THEN {}
     ELSE {k \in Keys : At(heap, actions["requestedAuthConfigs"])[k] # NoEntry}

(* the function calls of the returned event, one per requested entry, each *)
(* with an id of its own that is client-generated and listed in            *)
(* longRunningToolIds                                                      *)
OneCallPerEntry ==
  LET event == authEvent.returned
      configs == At(heap, authEvent.functionResponseEvent.actions["requestedAuthConfigs"])
      Ids == {event.parts[k].functionCall.id : k \in 1..Len(event.parts)}
  IN /\ Len(event.parts) = Cardinality(Requested)
     /\ \A key \in Requested :
           \E k \in 1..Len(event.parts) :
              LET fc == event.parts[k].functionCall
              IN /\ fc.name = REQUEST_EUC_FUNCTION_CALL_NAME
                 /\ fc.args.function_call_id = key
                 /\ fc.args.auth_config = configs[key]
                 /\ fc.id[1] = AF_FUNCTION_CALL_ID_PREFIX
     /\ Cardinality(Ids) = Len(event.parts)
     /\ event.longRunningToolIds = Ids

(* C39: generateAuthEvent returns an event only when the function-response *)
(* event requests at least one auth config, and undefined when             *)
(* requestedAuthConfigs is missing or has no entry; a returned event has   *)
(* exactly one adk_request_credential function call per requested entry,   *)
(* with the entry's function call id as argument and a client-generated id *)
(* of its own that is listed in longRunningToolIds.                        *)
C39_AuthEvent ==
  authEvent.called =>
    /\ authEvent.returned.isNull <=> Requested = {}
    /\ ~authEvent.returned.isNull => OneCallPerEntry

====
